---------------------------- MODULE Spec2Model ----------------------------
(***************************************************************************)
(* Model of the fixed-point transformer engine of the zkML program crate   *)
(* (src/zkml/program/src): quantization.rs, softmax.rs, attention.rs,      *)
(* transformer.rs.                                                         *)
(*                                                                         *)
(* Machine integers.  TLC's integers are 32-bit, so the Rust widths are    *)
(* modelled at a reduced word size: an i32/u32 has I32Bits bits, an        *)
(* i64/u64 twice as many, a usize UsizeBits bits.  i8 and u8 keep their    *)
(* 8 bits, so the literals -128 and 127 of the source are kept.  All       *)
(* wrap-around, cast and overflow-trap behaviour is computed modulo 2^w.   *)
(*                                                                         *)
(* Panics.  Every operation that can panic returns a record                *)
(* [panic |-> <message>, val |-> <value>]; panic = NoPanic means it        *)
(* returned val.  Arithmetic overflow traps (panic) when the build has     *)
(* overflow checks (debug profile) and wraps when it has not (release      *)
(* profile): the variable overflow_checks is the build's choice.           *)
(***************************************************************************)
EXTENDS Integers, Sequences, FiniteSets, TLC

\* ------------------------------------------------------------------ bounds
\* Bits of an i32 / u32 word of the model (32 in the program).
I32Bits == 12
\* Bits of a usize of the model (32 on the zkVM target, 64 on the host).
UsizeBits == 4
\* Largest d_model, n_heads and seq_len of the run_transformer calls (beside
\* the sizes whose products wrap a usize).
MaxDModel == 2
MaxHeads == 2
MaxSeqLen == 2
\* Longest input vector of a softmax call.
MaxLen == 3

\* --------------------------------------------------------- machine integers
I32Mod == 2 ^ I32Bits
I32Max == 2 ^ (I32Bits - 1) - 1
I32Min == -(2 ^ (I32Bits - 1))
U32Max == I32Mod - 1
I64Mod == 2 ^ (2 * I32Bits)
I64Max == 2 ^ (2 * I32Bits - 1) - 1
I64Min == -(2 ^ (2 * I32Bits - 1))
U64Max == I64Mod - 1
UsizeMod == 2 ^ UsizeBits
UsizeMax == UsizeMod - 1
I8Min == -128
I8Max == 127

I32 == I32Min .. I32Max
U32 == 0 .. U32Max
I8 == I8Min .. I8Max

\* Two's-complement reduction of an integer to a signed word of modulus m.
WrapS(v, m) == ((v + m \div 2) % m) - m \div 2
\* Reduction to an unsigned word of modulus m.
WrapU(v, m) == v % m
InS(v, m) == -(m \div 2) <= v /\ v <= m \div 2 - 1
InU(v, m) == 0 <= v /\ v <= m - 1

Abs(v) == IF v < 0 THEN -v ELSE v
Max2(a, b) == IF a >= b THEN a ELSE b
Min2(a, b) == IF a <= b THEN a ELSE b

\* Rust's integer division `/`: truncation toward zero (b # 0).
TruncDiv(a, b) ==
    IF (a >= 0) = (b > 0) THEN Abs(a) \div Abs(b) ELSE -(Abs(a) \div Abs(b))

\* Rust's `>>` on a signed integer: arithmetic shift, floor division.
Shr(a, k) == a \div (2 ^ k)

NoPanic == "none"
OverflowPanic == "arithmetic overflow"
DivZeroPanic == "attempt to divide by zero"
OobPanic == "index out of bounds"
Ok(v) == [panic |-> NoPanic, val |-> v]
Panic(msg, v) == [panic |-> msg, val |-> v]
IsOk(r) == r.panic = NoPanic

\* An arithmetic result v of a signed word type of modulus m: trap or wrap.
ArithS(v, m, checks) ==
    IF InS(v, m) THEN Ok(v)
    ELSE IF checks THEN Panic(OverflowPanic, 0) ELSE Ok(WrapS(v, m))
\* The same for an unsigned word type.
ArithU(v, m, checks) ==
    IF InU(v, m) THEN Ok(v)
    ELSE IF checks THEN Panic(OverflowPanic, 0) ELSE Ok(WrapU(v, m))

VARIABLES
    overflow_checks,  \* build profile: TRUE = overflow checks on (debug)
    isq,              \* the running isqrt call: [pc, n, x, y, msg]
    qz,               \* a quantize / dequantize round trip
    ac,               \* a call of AttentionConfig::new and what it ended in
    rt,               \* a call of run_transformer and what it ended in
    sm,               \* a call of softmax / softmax_masked and what it ended in
    ln,               \* a call of linear and what it ended in
    ni,               \* two attention calls on inputs that agree on a prefix
    hp,               \* two run_transformer calls on different weight sets
    hd                \* the heads of one forward pass, taken in some order

transformerVars == <<ac, rt>>
layerVars == <<sm, ln, ni, hp, hd>>
vars == <<overflow_checks, isq, qz, transformerVars, layerVars>>

\* ------------------------------------------------------ quantization.rs
\* struct QuantParams {scale: u32, zero_point: i8}, lines 12-17.
QuantParams(scale, zero_point) == [scale |-> scale, zero_point |-> zero_point]

\* QuantParams::with_scale, lines 44-49.
with_scale(scale) == QuantParams(scale, 0)

\* `params.scale as i32`: the u32 reinterpreted as a signed word.
ScaleAsI32(params) == WrapS(params.scale, I32Mod)

\* i32 `/`: panics on a zero divisor and on MIN / -1, whatever the build.
DivI32(a, b) ==
    IF b = 0 THEN Panic(DivZeroPanic, 0)
    ELSE IF a = I32Min /\ b = -1 THEN Panic(OverflowPanic, 0)
    ELSE Ok(TruncDiv(a, b))

\* Mutant of ClampI8: the `as i8` cast alone, without the clamp (it wraps).
ClampI8_CastOnly(v) == WrapS(v, 256)

\* `with_zp.max(-128).min(127) as i8`, line 67.
ClampI8(v) == Min2(Max2(v, I8Min), I8Max)

\* fn quantize(value: i32, params: &QuantParams) -> i8, lines 61-68.
quantize(value, params, checks) ==
    LET scaled == DivI32(value, ScaleAsI32(params))
    IN  IF ~IsOk(scaled) THEN scaled
        ELSE LET with_zp == ArithS(scaled.val - params.zero_point, I32Mod, checks)
             IN  IF ~IsOk(with_zp) THEN with_zp ELSE Ok(ClampI8(with_zp.val))

\* Mutant of dequantize: the zero point is not added back.
dequantize_NoZeroPoint(value, params, checks) ==
    ArithS(value * ScaleAsI32(params), I32Mod, checks)

\* fn dequantize(value: i8, params: &QuantParams) -> i32, lines 79-83.
dequantize(value, params, checks) ==
    LET with_zp == value + params.zero_point
    IN  ArithS(with_zp * ScaleAsI32(params), I32Mod, checks)

\* ------------------------------------------------- vectors (0-based as in Rust)
\* v[k] with the bounds check of a slice index.
Index(v, k) == IF k < Len(v) THEN Ok(v[k + 1]) ELSE Panic(OobPanic, 0)

\* A usize expression of value v (i * d + l, seq_len * d, ...): trap or wrap.
Usize(v, checks) == ArithU(v, UsizeMod, checks)

\* The first panic of a sequence of results, in order; Ok(0) when none.
FirstPanic(rs) ==
    LET bad == {k \in 1 .. Len(rs) : ~IsOk(rs[k])}
    IN  IF bad = {} THEN Ok(0)
        ELSE LET k == CHOOSE c \in bad : \A d \in bad : c <= d
             IN  Panic(rs[k].panic, k - 1)

\* `acc += term` over the terms in order, acc an i64 starting at 0.  A panic
\* of a term (an index out of bounds) or of the addition ends the loop.
RECURSIVE AccumulateI64(_, _, _, _)
AccumulateI64(terms, k, acc, checks) ==
    IF k > Len(terms) THEN Ok(acc)
    ELSE IF ~IsOk(terms[k]) THEN terms[k]
    ELSE LET sum == ArithS(acc + terms[k].val, I64Mod, checks)
         IN  IF ~IsOk(sum) THEN sum ELSE AccumulateI64(terms, k + 1, sum.val, checks)

\* The product of the i64 casts of two indexed elements.
Product(a, b) ==
    IF ~IsOk(a) THEN a ELSE IF ~IsOk(b) THEN b ELSE Ok(a.val * b.val)

\* A panic unwinds: the rest of the function, F, runs on the value of an
\* expression that did not panic.
Then(r, F(_)) == IF ~IsOk(r) THEN r ELSE F(r.val)

\* ---------------------------------------------- exp_table.rs (not in src/)
\* SCALE = 2^SCALE_BITS is the Q8.24 unit: three quarters of the word are
\* fraction bits.
SCALE_BITS == (3 * I32Bits) \div 4
SCALE == 2 ^ SCALE_BITS
\* The lower end of the table's domain (a negative fixed-point value).
X_MIN_SCALED == -(3 * SCALE)
\* Entries per unit of x.
EXP_TABLE_RES == 8
\* exp_lookup: a monotone table over [X_MIN_SCALED, 0] with exp(0) = SCALE;
\* an input outside the domain is clamped into it.  The entry for t = -x is
\* SCALE / (1 + t + t^2/2), the reciprocal of the truncated series of e^t.
exp_lookup(x) ==
    LET clamped == Min2(Max2(x, X_MIN_SCALED), 0)
        step == SCALE \div EXP_TABLE_RES
        t == ((-clamped) \div step) * step
    IN  (SCALE * SCALE) \div (SCALE + t + (t * t) \div (2 * SCALE))

\* ------------------------------------------------------------ softmax.rs
\* The largest element of a non-empty sequence.
MaxOf(inputs) ==
    CHOOSE m \in {inputs[k] : k \in 1 .. Len(inputs)} :
        \A k \in 1 .. Len(inputs) : inputs[k] <= m

RECURSIVE SumSeq(_, _)
SumSeq(vals, k) == IF k > Len(vals) THEN 0 ELSE vals[k] + SumSeq(vals, k + 1)

\* softmax without the normalisation: the exponentials themselves.
softmax_NotNormalized(inputs, checks) ==
    IF Len(inputs) = 0 THEN Ok(<<>>)
    ELSE LET max_val == MaxOf(inputs)
             shifted == [k \in 1 .. Len(inputs) |->
                            ArithS(inputs[k] - max_val, I32Mod, checks)]
             trap == FirstPanic(shifted)
         IN  IF ~IsOk(trap) THEN trap
             ELSE Ok([k \in 1 .. Len(inputs) |->
                        exp_lookup(Min2(Max2(shifted[k].val, X_MIN_SCALED), 0))])

\* fn softmax(inputs: &[i32]) -> Vec<u32>, lines 17-54.
softmax(inputs, checks) ==
    IF Len(inputs) = 0 THEN Ok(<<>>)
    ELSE LET max_val == MaxOf(inputs)
             shifted == [k \in 1 .. Len(inputs) |->
                            ArithS(inputs[k] - max_val, I32Mod, checks)]
             trap == FirstPanic(shifted)
         IN  IF ~IsOk(trap) THEN trap
             ELSE LET exp_vals == [k \in 1 .. Len(inputs) |->
                                      exp_lookup(Min2(Max2(shifted[k].val, X_MIN_SCALED), 0))]
                      sum == SumSeq(exp_vals, 1)
                  IN  Ok([k \in 1 .. Len(inputs) |->
                             WrapU((exp_vals[k] * SCALE) \div sum, I32Mod)])

\* `&scores[start..end]`: panics when start > end or end > len.
Slice(v, start, end) ==
    IF start.panic # NoPanic THEN start
    ELSE IF end.panic # NoPanic THEN end
    ELSE IF start.val > end.val \/ end.val > Len(v) THEN Panic(OobPanic, 0)
    ELSE Ok(SubSeq(v, start.val + 1, end.val))

\* Concatenation of the rows, or the first panic among them.
RECURSIVE Flatten(_, _)
Flatten(rows, k) == IF k > Len(rows) THEN <<>> ELSE rows[k].val \o Flatten(rows, k + 1)
Rows(rows) ==
    LET trap == FirstPanic(rows) IN IF ~IsOk(trap) THEN trap ELSE Ok(Flatten(rows, 1))

\* One row of softmax_2d: softmax of scores[start .. start + seq_len].
Softmax2dRow(scores, seq_len, row_idx, checks) ==
    LET start == Usize(row_idx * seq_len, checks)
        end == IF IsOk(start) THEN Usize(start.val + seq_len, checks) ELSE start
    IN  Then(Slice(scores, start, end), LAMBDA row : softmax(row, checks))

\* fn softmax_2d(scores: &[i32], seq_len: usize) -> Vec<u32>, lines 65-78.
softmax_2d(scores, seq_len, checks) ==
    Rows([r \in 1 .. seq_len |-> Softmax2dRow(scores, seq_len, r - 1, checks)])

\* One row of the causal branch: softmax of columns 0..=row_idx, then zeros.
SoftmaxMaskedRow(scores, seq_len, row_idx, checks) ==
    LET start == Usize(row_idx * seq_len, checks)
        valid_len == Usize(row_idx + 1, checks)
        end == IF ~IsOk(start) THEN start
               ELSE IF ~IsOk(valid_len) THEN valid_len
               ELSE Usize(start.val + valid_len.val, checks)
    IN  Then(Slice(scores, start, end), LAMBDA row :
        Then(softmax(row, checks), LAMBDA row_softmax :
        Ok(row_softmax \o [k \in 1 .. (seq_len - valid_len.val) |-> 0])))

\* fn softmax_masked(scores, seq_len, causal) -> Vec<u32>, lines 90-116.
softmax_masked(scores, seq_len, causal, checks) ==
    IF ~causal THEN softmax_2d(scores, seq_len, checks)
    ELSE Rows([r \in 1 .. seq_len |-> SoftmaxMaskedRow(scores, seq_len, r - 1, checks)])

\* ------------------------------------------------- attention.rs: isqrt
\* fn isqrt(n: u32) -> u32, lines 114-125, one step per loop iteration.
\* pc: "enter" (called), "loop" (at the while test), "done" (returned x),
\* "panic" (y holds nothing; msg names the panic).
IsqrtCall(n) == [pc |-> "enter", n |-> n, x |-> 0, y |-> 0, msg |-> NoPanic]

\* (x + q) / 2 in u32, q the quotient already computed.
IsqrtHalfSum(s, x, q, checks) ==
    LET sum == ArithU(x + q, I32Mod, checks)
    IN  IF IsOk(sum)
        THEN [s EXCEPT !.pc = "loop", !.x = x, !.y = sum.val \div 2]
        ELSE [s EXCEPT !.pc = "panic", !.x = x, !.msg = sum.panic]

\* Lines 115-119: the n == 0 return, then x = n, y = (x + 1) / 2.
IsqrtEnter(s, checks) ==
    IF s.n = 0 THEN [s EXCEPT !.pc = "done", !.x = 0]
    ELSE IsqrtHalfSum(s, s.n, 1, checks)

\* The loop with the test `y <= x`: it does not leave a fixed point.
IsqrtIterate_WhileNotGreater(s, checks) ==
    IF s.y <= s.x
    THEN IF s.y = 0
         THEN [s EXCEPT !.pc = "panic", !.x = s.y, !.msg = DivZeroPanic]
         ELSE IsqrtHalfSum(s, s.y, s.n \div s.y, checks)
    ELSE [s EXCEPT !.pc = "done"]

\* Lines 120-124: the while test and one iteration of the body.
IsqrtIterate(s, checks) ==
    IF s.y < s.x
    THEN IF s.y = 0
         THEN [s EXCEPT !.pc = "panic", !.x = s.y, !.msg = DivZeroPanic]
         ELSE IsqrtHalfSum(s, s.y, s.n \div s.y, checks)
    ELSE [s EXCEPT !.pc = "done"]

IsqrtStep(s, checks) ==
    IF s.pc = "enter" THEN IsqrtEnter(s, checks) ELSE IsqrtIterate(s, checks)

RECURSIVE IsqrtRun(_, _)
IsqrtRun(s, checks) ==
    IF s.pc \in {"done", "panic"} THEN s ELSE IsqrtRun(IsqrtStep(s, checks), checks)

\* The whole call: Ok(root) or a panic.
isqrt(n, checks) ==
    LET s == IsqrtRun(IsqrtCall(n), checks)
    IN  IF s.pc = "done" THEN Ok(s.x) ELSE Panic(s.msg, 0)

\* ----------------------------------------------------------- attention.rs
ConfigPanic == "d_model must be divisible by n_heads"
RemZeroPanic == "attempt to calculate the remainder with a divisor of zero"
InputPanic == "Input dimension mismatch"

\* Mutant of AttentionConfig_new: the divisibility assert is missing.
AttentionConfig_new_NoAssert(d_model, n_heads, seq_len, causal) ==
    IF n_heads = 0 THEN Panic(DivZeroPanic, 0)
    ELSE Ok([d_model |-> d_model, n_heads |-> n_heads,
             d_head |-> d_model \div n_heads, seq_len |-> seq_len, causal |-> causal])

\* AttentionConfig::new, lines 27-38.  `d_model % n_heads` panics for
\* n_heads = 0 before the assert can compare anything.
AttentionConfig_new(d_model, n_heads, seq_len, causal) ==
    IF n_heads = 0 THEN Panic(RemZeroPanic, 0)
    ELSE IF d_model % n_heads # 0 THEN Panic(ConfigPanic, 0)
    ELSE Ok([d_model |-> d_model, n_heads |-> n_heads,
             d_head |-> d_model \div n_heads, seq_len |-> seq_len, causal |-> causal])

\* v[idx], idx a usize expression that may itself have trapped.
Elem(v, idx) == IF ~IsOk(idx) THEN idx ELSE Index(v, idx.val)

\* `buf[idx] = value`: the value is evaluated first, then the index checked.
Store(value, idx, len) ==
    IF ~IsOk(value) THEN value
    ELSE IF ~IsOk(idx) THEN idx
    ELSE IF idx.val >= len THEN Panic(OobPanic, 0)
    ELSE value

\* The buffer a pair of nested loops has filled cell by cell (row-major), or
\* the first panic, val then counting the cells completed before it.
Collect(cells) ==
    LET trap == FirstPanic(cells)
    IN  IF ~IsOk(trap) THEN trap ELSE Ok([c \in 1 .. Len(cells) |-> cells[c].val])

\* One output cell of linear without the rescale by 2^SCALE_BITS.
LinearCell_NoRescale(x, w, i, j, d_in, d_out, out_len, checks) ==
    LET terms == [l \in 1 .. d_in |->
                     Product(Elem(x, Usize(i * d_in + (l - 1), checks)),
                             Elem(w, Usize((l - 1) * d_out + j, checks)))]
        acc == AccumulateI64(terms, 1, 0, checks)
        cell == IF ~IsOk(acc) THEN acc ELSE Ok(WrapS(acc.val, I32Mod))
    IN  Store(cell, Usize(i * d_out + j, checks), out_len)

\* One output cell of linear, lines 134-139.
LinearCell(x, w, i, j, d_in, d_out, out_len, checks) ==
    LET terms == [l \in 1 .. d_in |->
                     Product(Elem(x, Usize(i * d_in + (l - 1), checks)),
                             Elem(w, Usize((l - 1) * d_out + j, checks)))]
        acc == AccumulateI64(terms, 1, 0, checks)
        cell == IF ~IsOk(acc) THEN acc
                ELSE Ok(WrapS(Shr(acc.val, SCALE_BITS), I32Mod))
    IN  Store(cell, Usize(i * d_out + j, checks), out_len)

\* fn linear(x, w, seq_len, d_in, d_out) -> Vec<i32>, lines 129-144.
linear(x, w, seq_len, d_in, d_out, checks) ==
    LET out_len == Usize(seq_len * d_out, checks)
    IN  IF ~IsOk(out_len) THEN out_len
        ELSE Collect([c \in 1 .. seq_len * d_out |->
                 LinearCell(x, w, (c - 1) \div d_out, (c - 1) % d_out,
                            d_in, d_out, out_len.val, checks)])

\* One attention score, lines 71-80: the dot product of Q_i and K_j divided
\* by isqrt(d_head) * SCALE.
ScoreCell(q, k, i, j, seq_len, d_head, scores_len, checks) ==
    LET terms == [l \in 1 .. d_head |->
                     Product(Elem(q, Usize(i * d_head + (l - 1), checks)),
                             Elem(k, Usize(j * d_head + (l - 1), checks)))]
        dot == AccumulateI64(terms, 1, 0, checks)
        sqrt_d == isqrt(WrapU(d_head, I32Mod), checks)
        score == IF ~IsOk(dot) THEN dot
                 ELSE IF ~IsOk(sqrt_d) THEN sqrt_d
                 ELSE IF sqrt_d.val * SCALE = 0 THEN Panic(DivZeroPanic, 0)
                 ELSE Ok(WrapS(TruncDiv(dot.val, sqrt_d.val * SCALE), I32Mod))
    IN  Store(score, Usize(i * seq_len + j, checks), scores_len)

\* One cell of the weighted sum without the division by SCALE.
WeightedCell_NoRescale(attention_weights, v, i, l, seq_len, d_head, out_len, checks) ==
    LET terms == [j \in 1 .. seq_len |->
                     Product(Elem(attention_weights, Usize(i * seq_len + (j - 1), checks)),
                             Elem(v, Usize((j - 1) * d_head + l, checks)))]
        acc == AccumulateI64(terms, 1, 0, checks)
        cell == IF ~IsOk(acc) THEN acc ELSE Ok(WrapS(acc.val, I32Mod))
    IN  Store(cell, Usize(i * d_head + l, checks), out_len)

\* One cell of the weighted sum, lines 96-108.
WeightedCell(attention_weights, v, i, l, seq_len, d_head, out_len, checks) ==
    LET terms == [j \in 1 .. seq_len |->
                     Product(Elem(attention_weights, Usize(i * seq_len + (j - 1), checks)),
                             Elem(v, Usize((j - 1) * d_head + l, checks)))]
        acc == AccumulateI64(terms, 1, 0, checks)
        cell == IF ~IsOk(acc) THEN acc
                ELSE Ok(WrapS(TruncDiv(acc.val, SCALE), I32Mod))
    IN  Store(cell, Usize(i * d_head + l, checks), out_len)

\* fn single_head_attention(q, k, v, config) -> Vec<i32>, lines 56-111.
single_head_attention(q, k, v, config, checks) ==
    LET seq_len == config.seq_len
        d_head == config.d_head
    IN  Then(Usize(seq_len * seq_len, checks), LAMBDA scores_len :
        Then(Collect([c \in 1 .. seq_len * seq_len |->
                 ScoreCell(q, k, (c - 1) \div seq_len, (c - 1) % seq_len,
                           seq_len, d_head, scores_len, checks)]), LAMBDA scores :
        Then(softmax_masked(scores, seq_len, config.causal, checks),
             LAMBDA attention_weights :
        Then(Usize(seq_len * d_head, checks), LAMBDA out_len :
        Collect([c \in 1 .. seq_len * d_head |->
            WeightedCell(attention_weights, v, (c - 1) \div d_head,
                         (c - 1) % d_head, seq_len, d_head, out_len, checks)])))))

\* A panic of the forward pass unwinds with the stage it happened in and the
\* number of cells that stage had completed; F is the rest of the function.
StageOk(v) == [panic |-> NoPanic, val |-> v, stage |-> "done"]
StagePanic(stage, r) == [panic |-> r.panic, val |-> r.val, stage |-> stage]
Stage(stage, r, F(_)) == IF ~IsOk(r) THEN StagePanic(stage, r) ELSE F(r.val)

\* A head slice that takes the first d_head columns whatever the head.
HeadSlice_NoHeadOffset(full, h, config, checks) ==
    Collect([c \in 1 .. config.seq_len * config.d_head |->
        Elem(full, Usize(((c - 1) \div config.d_head) * config.d_model
                             + ((c - 1) % config.d_head), checks))])

\* Lines 181-190: columns [h*d_head, (h+1)*d_head) of every row of `full`.
HeadSlice(full, h, config, checks) ==
    Collect([c \in 1 .. config.seq_len * config.d_head |->
        Elem(full, Usize(((c - 1) \div config.d_head) * config.d_model
                             + h * config.d_head + ((c - 1) % config.d_head), checks))])

\* Lines 176-196: the body of the loop over the heads.
HeadOutput(q_full, k_full, v_full, h, config, checks) ==
    Then(HeadSlice(q_full, h, config, checks), LAMBDA q_head :
    Then(HeadSlice(k_full, h, config, checks), LAMBDA k_head :
    Then(HeadSlice(v_full, h, config, checks), LAMBDA v_head :
    single_head_attention(q_head, k_head, v_head, config, checks))))

\* A position in the concatenated buffer that forgets the head's offset.
ConcatIndex_NoHeadOffset(i, h, j, config) == i * config.d_model + j

\* Line 199: the position `i*d_model + h*d_head + j` of head h's cell (i, j).
ConcatIndex(i, h, j, config) == i * config.d_model + h * config.d_head + j

\* Lines 199-206: the stores `concat[i*d_model + h*d_head + j] =
\* head_outputs[h][i*d_head + j]` in loop order (i, h, j); each is
\* [panic, val, idx], idx the position written.
ConcatStores(head_outputs, config, concat_len, checks) ==
    LET per_row == config.n_heads * config.d_head
    IN  [c \in 1 .. config.seq_len * per_row |->
            LET i == (c - 1) \div per_row
                h == ((c - 1) % per_row) \div config.d_head
                j == (c - 1) % config.d_head
                idx == Usize(ConcatIndex(i, h, j, config), checks)
                st == Store(Elem(head_outputs[h + 1], Usize(i * config.d_head + j, checks)),
                            idx, concat_len)
            IN  [panic |-> st.panic, val |-> st.val, idx |-> idx.val]]

\* The buffer `vec![0i32; len]` after the stores, or their first panic.
Stored(stores, len) ==
    Then(FirstPanic(stores), LAMBDA none :
    Ok([p \in 1 .. len |->
        LET hits == {c \in 1 .. Len(stores) : stores[c].idx = p - 1}
        IN  IF hits = {} THEN 0
            ELSE stores[CHOOSE c \in hits : \A d \in hits : d <= c].val]))

\* fn multi_head_attention(input, weights, config) -> Vec<i32>, lines 155-206.
multi_head_attention(input, weights, config, checks) ==
    LET seq_len == config.seq_len
        d_model == config.d_model
    IN  Stage("mha_validate", Usize(seq_len * d_model, checks), LAMBDA expect :
        IF Len(input) # expect THEN StagePanic("mha_validate", Panic(InputPanic, 0))
        ELSE
        Stage("q_proj", linear(input, weights.w_q, seq_len, d_model, d_model, checks),
              LAMBDA q_full :
        Stage("k_proj", linear(input, weights.w_k, seq_len, d_model, d_model, checks),
              LAMBDA k_full :
        Stage("v_proj", linear(input, weights.w_v, seq_len, d_model, d_model, checks),
              LAMBDA v_full :
        Stage("heads", Collect([h \in 1 .. config.n_heads |->
                           HeadOutput(q_full, k_full, v_full, h - 1, config, checks)]),
              LAMBDA head_outputs :
        Stage("concat", Stored(ConcatStores(head_outputs, config, expect, checks),
                               expect),
              LAMBDA concat :
        Stage("o_proj", linear(concat, weights.w_o, seq_len, d_model, d_model, checks),
              LAMBDA output : StageOk(output))))))))

\* A self-attention whose configuration has one head per column.
self_attention_simple_HeadPerColumn(input, seq_len, d_model, causal, checks) ==
    LET config == AttentionConfig_new(d_model, d_model, seq_len, causal)
    IN  IF ~IsOk(config) THEN config
        ELSE single_head_attention(input, input, input, config.val, checks)

\* fn self_attention_simple(input, seq_len, d_model, causal), lines 210-218.
self_attention_simple(input, seq_len, d_model, causal, checks) ==
    LET config == AttentionConfig_new(d_model, 1, seq_len, causal)
    IN  IF ~IsOk(config) THEN config
        ELSE single_head_attention(input, input, input, config.val, checks)

\* --------------------------------------------------------- transformer.rs
WQPanic == "W_Q dimension mismatch"

\* Bytes of an i32 / u32 word, and of a u64.
I32Bytes == (I32Bits + 7) \div 8
U64Bytes == 2 * I32Bytes

\* `to_le_bytes` / the in-memory bytes of an integer: n bytes of the two's
\* complement, least significant first.
RECURSIVE ToLeBytes(_, _)
ToLeBytes(v, n) ==
    IF n = 0 THEN <<>> ELSE <<v % 256>> \o ToLeBytes(v \div 256, n - 1)

\* bytemuck::cast_slice::<i32, u8>: the bytes of the elements, in order.
RECURSIVE CastSlice(_, _)
CastSlice(v, k) ==
    IF k > Len(v) THEN <<>> ELSE ToLeBytes(v[k], I32Bytes) \o CastSlice(v, k + 1)

\* The SHA-256 digest of a byte string, collision-free: the digest stands
\* for exactly the bytes that were hashed.
Sha256(bytes) == [sha256 |-> bytes]

\* fn hash_weights, lines 139-153.
hash_weights(weights) ==
    Sha256(CastSlice(weights.w_q, 1) \o CastSlice(weights.w_k, 1)
           \o CastSlice(weights.w_v, 1) \o CastSlice(weights.w_o, 1)
           \o ToLeBytes(weights.scale, I32Bytes) \o ToLeBytes(weights.salt, U64Bytes))

\* fn hash_input, lines 156-158.
hash_input(input) == Sha256(CastSlice(input.embeddings, 1))

\* fn hash_output, lines 161-163.
hash_output(output) == Sha256(CastSlice(output, 1))

\* TransformerWeights::to_attention_weights, lines 53-61.
to_attention_weights(weights) ==
    [w_q |-> weights.w_q, w_k |-> weights.w_k, w_v |-> weights.w_v,
     w_o |-> weights.w_o, weight_scale |-> with_scale(weights.scale)]

\* TransformerConfig::to_attention_config, lines 30-32.
to_attention_config(config) ==
    AttentionConfig_new(config.d_model, config.n_heads, config.seq_len, config.causal)

\* What a call of run_transformer ends in: the TransformerProof it returns,
\* or the panic that unwinds it.
Attestation(model_hash, input_hash, output_hash, output) ==
    [kind |-> "attestation", model_hash |-> model_hash, input_hash |-> input_hash,
     output_hash |-> output_hash, output |-> output]
Failure(stage, msg, cells) ==
    [kind |-> "panic", msg |-> msg, stage |-> stage, cells |-> cells]

\* A panic below run_transformer unwinds it; F is the rest of the function.
Unwind(r, F(_)) == IF ~IsOk(r) THEN Failure(r.stage, r.panic, r.val) ELSE F(r.val)

\* fn run_transformer(config, weights, input) -> TransformerProof, lines 85-121.
run_transformer(config, weights, input, checks) ==
    LET wq_expect == Usize(config.d_model * config.d_model, checks)
        in_expect == Usize(config.seq_len * config.d_model, checks)
    IN  IF ~IsOk(wq_expect) THEN Failure("validate", wq_expect.panic, 0)
        ELSE IF Len(weights.w_q) # wq_expect.val THEN Failure("validate", WQPanic, 0)
        ELSE IF ~IsOk(in_expect) THEN Failure("validate", in_expect.panic, 0)
        ELSE IF Len(input.embeddings) # in_expect.val
             THEN Failure("validate", InputPanic, 0)
        ELSE
        Unwind(StagePanic("config", to_attention_config(config)), LAMBDA attn_config :
        Unwind(multi_head_attention(input.embeddings, to_attention_weights(weights),
                                    attn_config, checks), LAMBDA output :
        Attestation(hash_weights(weights), hash_input(input), hash_output(output),
                    output)))

\* ------------------------------------------------------------ idle values
\* The value of a variable in the specifications that do not use it.
IsqrtIdle == [pc |-> "idle", n |-> 0, x |-> 0, y |-> 0, msg |-> NoPanic]
QuantIdle ==
    [pc |-> "idle", value |-> 0, params |-> with_scale(1), q |-> 0, deq |-> 0,
     msg |-> NoPanic]
ConfigIdle ==
    [pc |-> "idle", d_model |-> 0, n_heads |-> 0, seq_len |-> 0, causal |-> FALSE,
     result |-> Panic("pending", 0)]
RunIdle ==
    [pc |-> "idle",
     config |-> [d_model |-> 0, n_heads |-> 0, seq_len |-> 0, causal |-> FALSE],
     weights |-> [w_q |-> <<>>, w_k |-> <<>>, w_v |-> <<>>, w_o |-> <<>>,
                  scale |-> 0, salt |-> 0],
     input |-> [embeddings |-> <<>>],
     outcome |-> Failure("pending", NoPanic, 0)]

SoftmaxIdle ==
    [pc |-> "idle", fn |-> "softmax", scores |-> <<>>, seq_len |-> 0,
     causal |-> FALSE, result |-> Panic("pending", 0)]
LinearIdle ==
    [pc |-> "idle", x |-> <<>>, w |-> <<>>, seq_len |-> 0, d_in |-> 0, d_out |-> 0,
     result |-> Panic("pending", 0)]
PairIdle == [pc |-> "idle"]
HeadsIdle == [pc |-> "idle"]
\* The variables of the layer specifications, unused.
LayerIdle ==
    /\ sm = SoftmaxIdle /\ ln = LinearIdle
    /\ ni = PairIdle /\ hp = PairIdle /\ hd = HeadsIdle
\* The variables of the earlier specifications, unused.
EngineIdle == isq = IsqrtIdle /\ qz = QuantIdle /\ ac = ConfigIdle /\ rt = RunIdle

\* ------------------------------------------------ specification: isqrt
IsqrtInit ==
    /\ overflow_checks \in BOOLEAN
    /\ isq \in {IsqrtCall(n) : n \in U32}
    /\ qz = QuantIdle
    /\ ac = ConfigIdle /\ rt = RunIdle
    /\ LayerIdle

IsqrtEnterStep ==
    /\ isq.pc = "enter"
    /\ isq' = IsqrtEnter(isq, overflow_checks)
    /\ UNCHANGED <<overflow_checks, qz, transformerVars, layerVars>>

IsqrtLoopStep ==
    /\ isq.pc = "loop"
    /\ isq' = IsqrtIterate(isq, overflow_checks)
    /\ UNCHANGED <<overflow_checks, qz, transformerVars, layerVars>>

IsqrtNext == IsqrtEnterStep \/ IsqrtLoopStep

SpecIsqrt == IsqrtInit /\ [][IsqrtNext]_vars

\* C7: for every u32 n (the largest included) isqrt returns the r with
\* r^2 <= n < (r+1)^2.  The claim as stated: every finished call returned,
\* and returned the integer square root.
C7_IsqrtIsFloorSqrtForEveryU32 ==
    isq.pc \in {"done", "panic"} =>
        /\ isq.pc = "done"
        /\ isq.x * isq.x <= isq.n
        /\ isq.n < (isq.x + 1) * (isq.x + 1)

\* ----------------------------------------- specification: quantization
\* One round trip: quantize(value, params), then dequantize of its result.
QuantCall(value, params) ==
    [pc |-> "quantize", value |-> value, params |-> params, q |-> 0, deq |-> 0,
     msg |-> NoPanic]

\* Scales of the round trips: small ones (the clamp is reachable), the
\* largest that is positive as an i32, and those the cast turns negative.
QuantScales ==
    {1, 2, 3, 4, 5, 7, 16, 17, I32Max - 1, I32Max, I32Max + 1, I32Max + 2,
     U32Max - 1, U32Max}
QuantZeroPoints == {I8Min, -1, 1, I8Max}
QuantParamsSet ==
    {QuantParams(s, 0) : s \in QuantScales}
        \cup {QuantParams(s, z) : s \in {1, 3, U32Max}, z \in QuantZeroPoints}

QuantInit ==
    /\ overflow_checks \in BOOLEAN
    /\ qz \in {QuantCall(v, p) : v \in I32, p \in QuantParamsSet}
    /\ isq = IsqrtIdle
    /\ ac = ConfigIdle /\ rt = RunIdle
    /\ LayerIdle

QuantizeStep ==
    /\ qz.pc = "quantize"
    /\ LET r == quantize(qz.value, qz.params, overflow_checks)
       IN  qz' = IF IsOk(r) THEN [qz EXCEPT !.pc = "dequantize", !.q = r.val]
                 ELSE [qz EXCEPT !.pc = "panic", !.msg = r.panic]
    /\ UNCHANGED <<overflow_checks, isq, transformerVars, layerVars>>

DequantizeStep ==
    /\ qz.pc = "dequantize"
    /\ LET r == dequantize(qz.q, qz.params, overflow_checks)
       IN  qz' = IF IsOk(r) THEN [qz EXCEPT !.pc = "done", !.deq = r.val]
                 ELSE [qz EXCEPT !.pc = "panic", !.msg = r.panic]
    /\ UNCHANGED <<overflow_checks, isq, transformerVars, layerVars>>

QuantNext == QuantizeStep \/ DequantizeStep

SpecQuant == QuantInit /\ [][QuantNext]_vars

\* quantize has returned (q holds its result).
Quantized == qz.pc \in {"dequantize", "done"}

RoundDiv(a, b) ==
    IF a >= 0 THEN (2 * a + b) \div (2 * b) ELSE -((2 * (-a) + b) \div (2 * b))

\* C10 as stated: quantize(value, params) =
\* clamp(round(value / scale) - zero_point, -128, 127), round to nearest.
C10_QuantizeRoundsToNearest ==
    qz.pc # "quantize" =>
        /\ qz.pc # "panic"
        /\ qz.q = ClampI8(RoundDiv(qz.value, qz.params.scale) - qz.params.zero_point)

\* quantize does not saturate: the truncating i32 quotient it computes,
\* less the zero point, already lies in [-128, 127].
Unsaturated ==
    /\ ScaleAsI32(qz.params) # 0
    /\ TruncDiv(qz.value, ScaleAsI32(qz.params)) - qz.params.zero_point \in I8

ConfigCall(d_model, n_heads, seq_len, causal) ==
    [pc |-> "call", d_model |-> d_model, n_heads |-> n_heads, seq_len |-> seq_len,
     causal |-> causal, result |-> Panic("pending", 0)]

ConfigInit ==
    /\ overflow_checks \in BOOLEAN
    /\ ac \in {ConfigCall(d, h, s, c) : d \in 0 .. UsizeMax, h \in 0 .. UsizeMax,
                                        s \in 0 .. MaxSeqLen, c \in BOOLEAN}
    /\ isq = IsqrtIdle /\ qz = QuantIdle /\ rt = RunIdle
    /\ LayerIdle

ConfigNewStep ==
    /\ ac.pc = "call"
    /\ ac' = [ac EXCEPT !.pc = "returned",
                        !.result = AttentionConfig_new(ac.d_model, ac.n_heads,
                                                       ac.seq_len, ac.causal)]
    /\ UNCHANGED <<overflow_checks, isq, qz, rt, layerVars>>

ConfigNext == ConfigNewStep

SpecConfig == ConfigInit /\ [][ConfigNext]_vars

\* d is a multiple of h.
Divisible(d, h) == \E k \in 0 .. d : d = h * k

\* C6: every AttentionConfig that AttentionConfig::new returns has
\* d_model = n_heads * d_head (and the d_model and n_heads it was asked for);
\* for every pair where d_model is not divisible by n_heads the construction
\* fails and returns no config.
C6_ConfigInvariantAndNonDivisibleFails ==
    ac.pc = "returned" =>
        /\ IsOk(ac.result) =>
              /\ ac.result.val.d_model = ac.d_model
              /\ ac.result.val.n_heads = ac.n_heads
              /\ ac.result.val.d_model = ac.result.val.n_heads * ac.result.val.d_head
        /\ ~Divisible(ac.d_model, ac.n_heads) => ~IsOk(ac.result)

\* C6 happens: a config with several heads of several columns is returned.
C6_Witness ==
    /\ ac.pc = "returned"
    /\ IsOk(ac.result)
    /\ ac.result.val.n_heads > 1
    /\ ac.result.val.d_head > 1

\* --------------------------------------- specification: run_transformer
\* The smallest d_model whose square wraps a usize, and a seq_len whose
\* product with d_model = 2 wraps to 2.
WrapDim == 2 ^ ((UsizeBits + 1) \div 2)
WrapSeq == UsizeMod \div 2 + 1

RTDModels == (0 .. MaxDModel) \cup {WrapDim}
RTHeads == 0 .. MaxHeads
RTSeqLens == (0 .. MaxSeqLen) \cup {WrapDim, WrapSeq}

\* Element k (0-based) of a vector of the calls: "identity" is the Q8.24 1.0
\* on the diagonal of a d x d matrix, "ramp" small values of both signs,
\* "min" the most negative word.
Fill(seed, k, d) ==
    CASE seed = "identity" -> IF k % (d + 1) = 0 THEN SCALE ELSE 0
      [] seed = "ramp" -> ((k * 37 + 11) % 64) - 20
      [] OTHER -> I32Min
Vec(len, seed, d) == [k \in 1 .. len |-> Fill(seed, k - 1, d)]

\* The length of a vector of a call: what the configuration asks for (the
\* product, or the product as a usize holds it), one longer or one shorter.
Expected(product, base) == IF base = "wrapped" THEN product % UsizeMod ELSE product
VecLen(name, product, base, which, delta) ==
    LET len == Expected(product, base) + (IF which = name THEN delta ELSE 0)
    IN  IF len < 0 THEN 0 ELSE len

RTCall(d, h, s, c, base, which, delta, wseed, iseed, salt) ==
    [pc |-> "call",
     config |-> [d_model |-> d, n_heads |-> h, seq_len |-> s, causal |-> c],
     weights |-> [w_q |-> Vec(VecLen("w_q", d * d, base, which, delta), wseed, d),
                  w_k |-> Vec(VecLen("w_k", d * d, base, which, delta), wseed, d),
                  w_v |-> Vec(VecLen("w_v", d * d, base, which, delta), wseed, d),
                  w_o |-> Vec(VecLen("w_o", d * d, base, which, delta), wseed, d),
                  scale |-> SCALE, salt |-> salt],
     input |-> [embeddings |->
                    Vec(VecLen("embeddings", s * d, base, which, delta), iseed, d)],
     outcome |-> Failure("pending", NoPanic, 0)]

RTCalls ==
    {RTCall(d, h, s, c, base, which, delta, wseed, iseed, 0) :
        d \in RTDModels, h \in RTHeads, s \in RTSeqLens, c \in BOOLEAN,
        base \in {"product", "wrapped"},
        which \in {"none", "w_q", "w_k", "w_v", "w_o", "embeddings"},
        delta \in {-1, 1},
        wseed \in {"identity", "ramp", "min"}, iseed \in {"ramp", "min"}}

RTInit ==
    /\ overflow_checks \in BOOLEAN
    /\ rt \in RTCalls
    /\ isq = IsqrtIdle /\ qz = QuantIdle /\ ac = ConfigIdle
    /\ LayerIdle

RunTransformerStep ==
    /\ rt.pc = "call"
    /\ rt' = [rt EXCEPT !.pc = "returned",
                        !.outcome = run_transformer(rt.config, rt.weights, rt.input,
                                                    overflow_checks)]
    /\ UNCHANGED <<overflow_checks, isq, qz, ac, layerVars>>

RTNext == RunTransformerStep

SpecRT == RTInit /\ [][RTNext]_vars

\* The declared outcomes, a panic of one of the shape asserts counted as
\* DimensionMismatch and the panic of the divisibility assert as
\* ConfigInvalid.
IsAttestation(o) == o.kind = "attestation"
IsDimensionMismatch(o) == o.kind = "panic" /\ o.msg \in {WQPanic, InputPanic}
IsConfigInvalid(o) == o.kind = "panic" /\ o.msg = ConfigPanic
\* The call failed and had not started a projection / had not finished a
\* cell of one.
FailedBeforeProjection(o) ==
    o.kind = "panic" /\ o.stage \in {"validate", "config", "mha_validate"}
FailedBeforeAnyCell(o) ==
    FailedBeforeProjection(o) \/ (o.kind = "panic" /\ o.stage = "q_proj" /\ o.cells = 0)

\* C2: for every (config, weights, input), d_model = 0, n_heads = 0,
\* seq_len = 0 and weight matrices of any length included, run_transformer
\* ends in an Attestation, DimensionMismatch or ConfigInvalid, never in a
\* division by zero, an out-of-bounds index or an overflow trap.  The claim as
\* stated.
C2_EndsInDeclaredOutcome ==
    rt.pc = "returned" =>
        \/ IsAttestation(rt.outcome)
        \/ IsDimensionMismatch(rt.outcome)
        \/ IsConfigInvalid(rt.outcome)

\* C3: run_transformer called with w_q.len() /= d_model^2 fails with
\* DimensionMismatch and produces no Attestation.  The claim as stated, the
\* panic of the W_Q assert counted as the DimensionMismatch failure.
C3_WrongWqLengthIsDimensionMismatch ==
    (rt.pc = "returned"
        /\ Len(rt.weights.w_q) # rt.config.d_model * rt.config.d_model)
    => (rt.outcome.kind = "panic" /\ rt.outcome.msg = WQPanic)

\* C4: if one of w_k, w_v, w_o has a length other than d_model^2, shorter or
\* longer, run_transformer fails before any projection is computed and
\* returns no Attestation.  The claim as stated.
C4_WrongWkWvWoLengthFailsBeforeProjection ==
    (rt.pc = "returned"
        /\ \E m \in {rt.weights.w_k, rt.weights.w_v, rt.weights.w_o} :
               Len(m) # rt.config.d_model * rt.config.d_model)
    => FailedBeforeProjection(rt.outcome)

\* C5: run_transformer called with embeddings.len() /= seq_len * d_model
\* fails before any cell of a projection, a score or a digest is computed
\* and returns no Attestation.  The claim as stated.
C5_WrongInputLengthFailsBeforeAnyCell ==
    (rt.pc = "returned"
        /\ Len(rt.input.embeddings) # rt.config.seq_len * rt.config.d_model)
    => FailedBeforeAnyCell(rt.outcome)

\* ------------------------------------------------ specification: softmax
\* The tolerance of test_softmax_sums_to_one on the sum of the outputs.
SumTolerance == 1000

\* All sequences of length n over the set S.
SeqsOf(S, n) == [1 .. n -> S]

SoftmaxCall(fn, scores, seq_len, causal) ==
    [pc |-> "call", fn |-> fn, scores |-> scores, seq_len |-> seq_len,
     causal |-> causal, result |-> Panic("pending", 0)]

\* Inputs of the calls: both ends of the i32 range, the ends of the table's
\* domain and values around zero.
SoftmaxValues == {I32Min, X_MIN_SCALED, -SCALE, -1, 0, 1, I32Max}
MaskedValues == {I32Min, -SCALE, 0, 1, I32Max}

\* softmax of the vectors up to MaxLen over SoftmaxValues (the empty one
\* included), and of every uniform vector.
SoftmaxCalls ==
    {SoftmaxCall("softmax", v, 0, FALSE) :
        v \in UNION {SeqsOf(SoftmaxValues, n) : n \in 0 .. MaxLen}}
      \cup {SoftmaxCall("softmax", [k \in 1 .. n |-> c], 0, FALSE) :
                n \in 1 .. MaxLen + 1, c \in I32}

\* softmax_masked of every score matrix over MaskedValues up to 2 x 2, and of
\* ramps of larger ones.
MaskedCalls ==
    UNION {{SoftmaxCall("softmax_masked", v, n, causal) :
                v \in SeqsOf(MaskedValues, n * n), causal \in BOOLEAN} : n \in 0 .. 2}
      \cup {SoftmaxCall("softmax_masked",
                        [k \in 1 .. n * n |-> ((k * step) % (4 * SCALE)) - off], n, causal) :
                n \in 0 .. MaxSeqLen + 1, step \in {1, SCALE \div 2, SCALE + 3},
                off \in {0, SCALE, I32Max}, causal \in BOOLEAN}

SoftmaxInit ==
    /\ overflow_checks \in BOOLEAN
    /\ sm \in SoftmaxCalls \cup MaskedCalls
    /\ EngineIdle
    /\ ln = LinearIdle /\ ni = PairIdle /\ hp = PairIdle /\ hd = HeadsIdle

SoftmaxStep ==
    /\ sm.pc = "call" /\ sm.fn = "softmax"
    /\ sm' = [sm EXCEPT !.pc = "returned",
                        !.result = softmax(sm.scores, overflow_checks)]
    /\ UNCHANGED <<overflow_checks, isq, qz, transformerVars, ln, ni, hp, hd>>

SoftmaxMaskedStep ==
    /\ sm.pc = "call" /\ sm.fn = "softmax_masked"
    /\ sm' = [sm EXCEPT !.pc = "returned",
                        !.result = softmax_masked(sm.scores, sm.seq_len, sm.causal,
                                                  overflow_checks)]
    /\ UNCHANGED <<overflow_checks, isq, qz, transformerVars, ln, ni, hp, hd>>

SoftmaxNext == SoftmaxStep \/ SoftmaxMaskedStep

SpecSoftmax == SoftmaxInit /\ [][SoftmaxNext]_vars

\* C11: for every non-empty input vector, of any i32 values, softmax
\* returns outputs whose sum is within SumTolerance of SCALE.  The claim as
\* stated.
C11_SoftmaxSumsToScale ==
    (sm.pc = "returned" /\ sm.fn = "softmax" /\ Len(sm.scores) > 0)
    => /\ IsOk(sm.result)
       /\ Abs(SumSeq(sm.result.val, 1) - SCALE) < SumTolerance

\* Row i (0-based) of a row-major seq_len x seq_len matrix, columns 0..=last.
RowPrefix(m, seq_len, i, last) == SubSeq(m, i * seq_len + 1, i * seq_len + last + 1)

\* C12: softmax_masked with causal = true returns seq_len * seq_len entries;
\* in every row i the columns j > i are 0 and the columns 0..=i are softmax
\* of scores[i][0..=i].  The claim as stated.
C12_CausalMaskZeroesLaterColumns ==
    (sm.pc = "returned" /\ sm.fn = "softmax_masked" /\ sm.causal
        /\ Len(sm.scores) = sm.seq_len * sm.seq_len)
    => /\ IsOk(sm.result)
       /\ Len(sm.result.val) = sm.seq_len * sm.seq_len
       /\ \A i \in 0 .. sm.seq_len - 1 :
            /\ \A j \in i + 1 .. sm.seq_len - 1 :
                   sm.result.val[i * sm.seq_len + j + 1] = 0
            /\ Ok(RowPrefix(sm.result.val, sm.seq_len, i, i))
                   = softmax(RowPrefix(sm.scores, sm.seq_len, i, i), overflow_checks)

\* The inputs of the call are all the same value.
Uniform(v) == \A k \in 1 .. Len(v) : v[k] = v[1]

\* C13: softmax of n >= 1 inputs all equal to c returns n identical outputs,
\* each the floor of SCALE / n (so within one unit of SCALE / n).
C13_UniformInputsUniformOutputs ==
    (sm.pc = "returned" /\ sm.fn = "softmax" /\ Len(sm.scores) >= 1
        /\ Uniform(sm.scores))
    => /\ IsOk(sm.result)
       /\ Len(sm.result.val) = Len(sm.scores)
       /\ \A k \in 1 .. Len(sm.scores) :
            /\ sm.result.val[k] = sm.result.val[1]
            /\ Len(sm.scores) * sm.result.val[k] <= SCALE
            /\ SCALE < Len(sm.scores) * (sm.result.val[k] + 1)

\* C13 happens: softmax returned for several equal inputs that are not zero.
C13_Witness ==
    /\ sm.pc = "returned" /\ sm.fn = "softmax"
    /\ Len(sm.scores) >= 3 /\ Uniform(sm.scores) /\ sm.scores[1] < 0
    /\ IsOk(sm.result)
    /\ sm.result.val[1] > 0

\* ------------------------------------------------- specification: linear
LinearCall(x, w, seq_len, d_in, d_out) ==
    [pc |-> "call", x |-> x, w |-> w, seq_len |-> seq_len, d_in |-> d_in,
     d_out |-> d_out, result |-> Panic("pending", 0)]

\* The d x d identity of Q8.24: SCALE on the diagonal, 0 elsewhere.
Identity(d) == [k \in 1 .. d * d |-> IF (k - 1) % (d + 1) = 0 THEN SCALE ELSE 0]

LinearInputs == {I32Min, -1, 5, I32Max}
LinearWeights == {I32Min, -1, SCALE, I32Max}

\* One row times every weight matrix up to 2 x 2 over LinearWeights.
RowCalls ==
    UNION {{LinearCall(x, w, 1, d_in, d_out) :
                x \in SeqsOf(LinearInputs, d_in),
                w \in SeqsOf(LinearWeights, d_in * d_out)} :
           d_in \in 1 .. 2, d_out \in 1 .. 2}

\* The identity applied to every matrix up to 2 x 2 over LinearInputs, to
\* every single i32 value, and to ramps of larger matrices.
IdentityCalls ==
    UNION {{LinearCall(x, Identity(d), s, d, d) : x \in SeqsOf(LinearInputs, s * d)} :
           s \in 0 .. 2, d \in 0 .. 2}
      \cup {LinearCall(<<c>>, Identity(1), 1, 1, 1) : c \in I32}
      \cup {LinearCall([k \in 1 .. s * d |-> WrapS(k * step - off, I32Mod)],
                       Identity(d), s, d, d) :
                s \in 0 .. MaxSeqLen + 1, d \in 0 .. MaxDModel + 1,
                step \in {1, SCALE + 3}, off \in {0, 7, I32Max + 1}}

LinearInit ==
    /\ overflow_checks \in BOOLEAN
    /\ ln \in RowCalls \cup IdentityCalls
    /\ EngineIdle
    /\ sm = SoftmaxIdle /\ ni = PairIdle /\ hp = PairIdle /\ hd = HeadsIdle

LinearStep ==
    /\ ln.pc = "call"
    /\ ln' = [ln EXCEPT !.pc = "returned",
                        !.result = linear(ln.x, ln.w, ln.seq_len, ln.d_in, ln.d_out,
                                          overflow_checks)]
    /\ UNCHANGED <<overflow_checks, isq, qz, transformerVars, sm, ni, hp, hd>>

LinearNext == LinearStep

SpecLinear == LinearInit /\ [][LinearNext]_vars

\* The call is well shaped: x is seq_len x d_in and w is d_in x d_out.
WellShaped(call) ==
    /\ Len(call.x) = call.seq_len * call.d_in
    /\ Len(call.w) = call.d_in * call.d_out

\* C14: linear of a [seq_len, d] matrix x with the d x d identity returns
\* seq_len * d cells, each within one fixed-point unit of the cell of x, for
\* positive and negative cells alike.
C14_IdentityReturnsInput ==
    (ln.pc = "returned" /\ ln.d_in = ln.d_out /\ ln.w = Identity(ln.d_in)
        /\ WellShaped(ln))
    => /\ IsOk(ln.result)
       /\ Len(ln.result.val) = Len(ln.x)
       /\ \A k \in 1 .. Len(ln.x) : Abs(ln.result.val[k] - ln.x[k]) <= 1

\* C14 happens: the identity was applied to a matrix of several rows and
\* columns with a positive and a negative cell.
C14_Witness ==
    /\ ln.pc = "returned" /\ ln.d_in = ln.d_out /\ ln.w = Identity(ln.d_in)
    /\ ln.seq_len >= 2 /\ ln.d_in >= 2 /\ WellShaped(ln)
    /\ IsOk(ln.result)
    /\ \E k \in 1 .. Len(ln.x) : ln.x[k] < 0
    /\ \E k \in 1 .. Len(ln.x) : ln.x[k] > 0

\* The exact sum over l of x[i][l] * w[l][j].
RECURSIVE DotSum(_, _, _, _)
DotSum(call, i, j, l) ==
    IF l >= call.d_in THEN 0
    ELSE call.x[i * call.d_in + l + 1] * call.w[l * call.d_out + j + 1]
             + DotSum(call, i, j, l + 1)

\* C19: every output cell of linear equals floor(sum over l of
\* x[i][l] * w[l][j] / SCALE), rounded toward negative infinity, so a
\* negative sum never yields a large positive cell.  The claim as stated.
C19_CellIsFloorOfScaledSum ==
    (ln.pc = "returned" /\ WellShaped(ln))
    => /\ IsOk(ln.result)
       /\ \A i \in 0 .. ln.seq_len - 1 : \A j \in 0 .. ln.d_out - 1 :
              ln.result.val[i * ln.d_out + j + 1] = DotSum(ln, i, j, 0) \div SCALE

\* ------------------- specification: attention on inputs agreeing on a prefix
\* Two inputs of one attention call: b is a with the rows after row `upto`
\* replaced.
PairCall(fn, d, h, seq_len, causal, wseed, aseed, bseed, upto) ==
    [pc |-> "call", fn |-> fn,
     config |-> [d_model |-> d, n_heads |-> h, d_head |-> d \div h,
                 seq_len |-> seq_len, causal |-> causal],
     weights |-> [w_q |-> Vec(d * d, wseed, d), w_k |-> Vec(d * d, wseed, d),
                  w_v |-> Vec(d * d, wseed, d), w_o |-> Vec(d * d, wseed, d),
                  weight_scale |-> with_scale(SCALE)],
     a |-> Vec(seq_len * d, aseed, d),
     b |-> [k \in 1 .. seq_len * d |->
               IF (k - 1) \div d <= upto THEN Fill(aseed, k - 1, d)
               ELSE Fill(bseed, k + 1, d)],
     out_a |-> Panic("pending", 0), out_b |-> Panic("pending", 0)]

PairCalls ==
    {PairCall(fn, d, h, seq_len, causal, wseed, aseed, bseed, upto) :
        fn \in {"multi_head_attention", "self_attention_simple"},
        d \in 1 .. MaxDModel, h \in 1 .. MaxHeads, seq_len \in 1 .. MaxSeqLen + 1,
        causal \in BOOLEAN, wseed \in {"identity", "ramp", "min"},
        aseed \in {"identity", "ramp", "min"}, bseed \in {"identity", "ramp", "min"},
        upto \in 0 .. MaxSeqLen}

PairInit ==
    /\ overflow_checks \in BOOLEAN
    /\ ni \in {call \in PairCalls :
                  /\ call.config.d_model % call.config.n_heads = 0
                  /\ call.fn = "self_attention_simple" => call.config.n_heads = 1}
    /\ EngineIdle
    /\ sm = SoftmaxIdle /\ ln = LinearIdle /\ hp = PairIdle /\ hd = HeadsIdle

MhaPairStep ==
    /\ ni.pc = "call" /\ ni.fn = "multi_head_attention"
    /\ ni' = [ni EXCEPT
                !.pc = "returned",
                !.out_a = multi_head_attention(ni.a, ni.weights, ni.config,
                                               overflow_checks),
                !.out_b = multi_head_attention(ni.b, ni.weights, ni.config,
                                               overflow_checks)]
    /\ UNCHANGED <<overflow_checks, isq, qz, transformerVars, sm, ln, hp, hd>>

SimplePairStep ==
    /\ ni.pc = "call" /\ ni.fn = "self_attention_simple"
    /\ ni' = [ni EXCEPT
                !.pc = "returned",
                !.out_a = self_attention_simple(ni.a, ni.config.seq_len,
                              ni.config.d_model, ni.config.causal, overflow_checks),
                !.out_b = self_attention_simple(ni.b, ni.config.seq_len,
                              ni.config.d_model, ni.config.causal, overflow_checks)]
    /\ UNCHANGED <<overflow_checks, isq, qz, transformerVars, sm, ln, hp, hd>>

PairNext == MhaPairStep \/ SimplePairStep

SpecPair == PairInit /\ [][PairNext]_vars

\* Rows 0..=i of two row-major matrices of d columns are the same.
AgreeUpTo(a, b, i, d) == SubSeq(a, 1, (i + 1) * d) = SubSeq(b, 1, (i + 1) * d)
\* Row i of a row-major matrix of d columns.
Row(m, i, d) == SubSeq(m, i * d + 1, (i + 1) * d)

\* C15: with causal = true, row i of the output of multi_head_attention and
\* of self_attention_simple is the same for two inputs that agree on rows
\* 0..=i, whatever their later rows: when one call delivers its output the
\* other delivers the same row i.  The claim as stated.
C15_CausalRowsIgnoreLaterRows ==
    (ni.pc = "returned" /\ ni.config.causal /\ (IsOk(ni.out_a) \/ IsOk(ni.out_b)))
    => \A i \in 0 .. ni.config.seq_len - 1 :
           AgreeUpTo(ni.a, ni.b, i, ni.config.d_model)
           => /\ IsOk(ni.out_a) /\ IsOk(ni.out_b)
              /\ Row(ni.out_a.val, i, ni.config.d_model)
                     = Row(ni.out_b.val, i, ni.config.d_model)


\* ------------------------------------------------ specification: SpecHash
\* Two calls of run_transformer on the same configuration and input and on
\* two weight sets.  Only w_q has its length validated (lines 94-97), so
\* w_k, w_v and w_o come in the length the projections read and one longer.
HashValues == {5, 7}
HashMatrices(d) == SeqsOf(HashValues, d * d) \cup SeqsOf(HashValues, d * d + 1)

HashWeightSets(d) ==
    {[w_q |-> q, w_k |-> k, w_v |-> v, w_o |-> <<SCALE>>, scale |-> SCALE,
      salt |-> salt] :
        q \in SeqsOf(HashValues, d * d), k \in HashMatrices(d),
        v \in HashMatrices(d), salt \in {0, 1}}

HashCall(d, weights_a, weights_b) ==
    [pc |-> "call",
     config |-> [d_model |-> d, n_heads |-> 1, seq_len |-> 1, causal |-> FALSE],
     input |-> [embeddings |-> Vec(d, "ramp", d)],
     weights_a |-> weights_a, weights_b |-> weights_b,
     outcome_a |-> Failure("pending", NoPanic, 0),
     outcome_b |-> Failure("pending", NoPanic, 0)]

HashInit ==
    /\ overflow_checks \in BOOLEAN
    /\ hp \in {HashCall(1, a, b) : a \in HashWeightSets(1), b \in HashWeightSets(1)}
    /\ EngineIdle
    /\ sm = SoftmaxIdle /\ ln = LinearIdle /\ ni = PairIdle /\ hd = HeadsIdle

HashPairStep ==
    /\ hp.pc = "call"
    /\ hp' = [hp EXCEPT
                 !.pc = "returned",
                 !.outcome_a = run_transformer(hp.config, hp.weights_a, hp.input,
                                               overflow_checks),
                 !.outcome_b = run_transformer(hp.config, hp.weights_b, hp.input,
                                               overflow_checks)]
    /\ UNCHANGED <<overflow_checks, isq, qz, transformerVars, sm, ln, ni, hd>>

HashNext == HashPairStep

SpecHash == HashInit /\ [][HashNext]_vars

\* C16: two weight sets that run_transformer accepts and that differ in an
\* element of w_q, w_k, w_v or w_o, in the scale or in the salt are hashed
\* from different byte sequences, so their model_hash differ.
C16_ModelHashBindsWeights ==
    (/\ hp.pc = "returned"
     /\ IsAttestation(hp.outcome_a) /\ IsAttestation(hp.outcome_b)
     /\ hp.weights_a # hp.weights_b)
    => hp.outcome_a.model_hash # hp.outcome_b.model_hash

\* ----------------------------------------------- specification: SpecHeads
\* One forward pass of multi_head_attention whose heads are taken in any
\* order.  After the projections (lines 168-170) the body of the loop over
\* the heads (lines 175-192) runs once for every head, in any order; the
\* stores of a head's output into the concatenated buffer (line 199) run
\* once for every head whose body has run, in any order and interleaved
\* with the bodies of the other heads; the output projection (line 205)
\* runs when every head is stored.
Pending == Panic("pending", 0)

HeadsCall(d, h, seq_len, causal, wseed, iseed) ==
    [pc |-> "call",
     config |-> [d_model |-> d, n_heads |-> h, d_head |-> d \div h,
                 seq_len |-> seq_len, causal |-> causal],
     weights |-> [w_q |-> Vec(d * d, wseed, d), w_k |-> Vec(d * d, wseed, d),
                  w_v |-> Vec(d * d, wseed, d), w_o |-> Vec(d * d, "identity", d),
                  weight_scale |-> with_scale(SCALE)],
     input |-> Vec(seq_len * d, iseed, d),
     q_full |-> <<>>, k_full |-> <<>>, v_full |-> <<>>,
     slices |-> [x \in 1 .. h |-> [q |-> <<>>, k |-> <<>>, v |-> <<>>]],
     head_outputs |-> [x \in 1 .. h |-> Pending],
     ran |-> <<>>, stored |-> <<>>,
     concat |-> <<>>, writes |-> <<>>,
     output |-> Pending]

\* The configurations AttentionConfig::new builds (line 29).
HeadsCalls ==
    {HeadsCall(d, h, seq_len, causal, wseed, iseed) :
        d \in 1 .. MaxDModel, h \in 1 .. MaxHeads, seq_len \in 1 .. MaxSeqLen,
        causal \in BOOLEAN, wseed \in {"identity", "ramp"},
        iseed \in {"ramp", "min"}}

HeadsInit ==
    /\ overflow_checks \in BOOLEAN
    /\ hd \in {call \in HeadsCalls :
                  IsOk(AttentionConfig_new(call.config.d_model, call.config.n_heads,
                                           call.config.seq_len, call.config.causal))}
    /\ EngineIdle
    /\ sm = SoftmaxIdle /\ ln = LinearIdle /\ ni = PairIdle /\ hp = PairIdle

HeadsPanicked(r) == [hd EXCEPT !.pc = "panicked", !.output = r]
Members(order) == {order[n] : n \in 1 .. Len(order)}

\* Lines 160-170: the assert on the input and the three projections.
ProjectStep ==
    /\ hd.pc = "call"
    /\ LET seq_len == hd.config.seq_len
           d_model == hd.config.d_model
           done ==
               Then(Usize(seq_len * d_model, overflow_checks), LAMBDA expect :
               IF Len(hd.input) # expect THEN Panic(InputPanic, 0)
               ELSE
               Then(linear(hd.input, hd.weights.w_q, seq_len, d_model, d_model,
                           overflow_checks), LAMBDA q_full :
               Then(linear(hd.input, hd.weights.w_k, seq_len, d_model, d_model,
                           overflow_checks), LAMBDA k_full :
               Then(linear(hd.input, hd.weights.w_v, seq_len, d_model, d_model,
                           overflow_checks), LAMBDA v_full :
               Ok([hd EXCEPT !.pc = "heads", !.q_full = q_full, !.k_full = k_full,
                             !.v_full = v_full,
                             !.concat = [c \in 1 .. expect |-> 0],
                             !.writes = [c \in 1 .. expect |-> 0]])))))
       IN  hd' = IF IsOk(done) THEN done.val ELSE HeadsPanicked(done)
    /\ UNCHANGED <<overflow_checks, isq, qz, transformerVars, sm, ln, ni, hp>>

\* Lines 176-191: the body of the loop for head h.
HeadStep(h) ==
    /\ hd.pc = "heads"
    /\ h < hd.config.n_heads
    /\ h \notin Members(hd.ran)
    /\ LET done ==
               Then(HeadSlice(hd.q_full, h, hd.config, overflow_checks), LAMBDA q_head :
               Then(HeadSlice(hd.k_full, h, hd.config, overflow_checks), LAMBDA k_head :
               Then(HeadSlice(hd.v_full, h, hd.config, overflow_checks), LAMBDA v_head :
               Then(single_head_attention(q_head, k_head, v_head, hd.config,
                                          overflow_checks), LAMBDA head_out :
               Ok([hd EXCEPT !.slices[h + 1] = [q |-> q_head, k |-> k_head,
                                                v |-> v_head],
                             !.head_outputs[h + 1] = Ok(head_out),
                             !.ran = Append(@, h)])))))
       IN  hd' = IF IsOk(done) THEN done.val ELSE HeadsPanicked(done)
    /\ UNCHANGED <<overflow_checks, isq, qz, transformerVars, sm, ln, ni, hp>>

\* Line 199 for one head: the stores of head h's cells, in loop order (i, j).
HeadStores(head_output, h, config, concat_len, checks) ==
    [c \in 1 .. config.seq_len * config.d_head |->
        LET i == (c - 1) \div config.d_head
            j == (c - 1) % config.d_head
            idx == Usize(ConcatIndex(i, h, j, config), checks)
            st == Store(Elem(head_output, Usize(i * config.d_head + j, checks)),
                        idx, concat_len)
        IN  [panic |-> st.panic, val |-> st.val, idx |-> idx.val]]

\* Lines 196-201 for head h, whose body has run.
ConcatStep(h) ==
    /\ hd.pc = "heads"
    /\ h \in Members(hd.ran)
    /\ h \notin Members(hd.stored)
    /\ LET stores == HeadStores(hd.head_outputs[h + 1].val, h, hd.config,
                                Len(hd.concat), overflow_checks)
           trap == FirstPanic(stores)
           Hits(p) == {c \in 1 .. Len(stores) : stores[c].idx = p - 1}
       IN  hd' = IF ~IsOk(trap) THEN HeadsPanicked(trap)
                 ELSE [hd EXCEPT
                          !.concat = [p \in 1 .. Len(hd.concat) |->
                              IF Hits(p) = {} THEN hd.concat[p]
                              ELSE stores[CHOOSE c \in Hits(p) :
                                              \A d \in Hits(p) : d <= c].val],
                          !.writes = [p \in 1 .. Len(hd.writes) |->
                              hd.writes[p] + Cardinality(Hits(p))],
                          !.stored = Append(@, h)]
    /\ UNCHANGED <<overflow_checks, isq, qz, transformerVars, sm, ln, ni, hp>>

\* Line 205: the output projection of the concatenated buffer.
OutputStep ==
    /\ hd.pc = "heads"
    /\ Len(hd.stored) = hd.config.n_heads
    /\ LET output == linear(hd.concat, hd.weights.w_o, hd.config.seq_len,
                            hd.config.d_model, hd.config.d_model, overflow_checks)
       IN  hd' = IF IsOk(output) THEN [hd EXCEPT !.pc = "returned", !.output = output]
                 ELSE HeadsPanicked(output)
    /\ UNCHANGED <<overflow_checks, isq, qz, transformerVars, sm, ln, ni, hp>>

HeadsNext ==
    \/ ProjectStep
    \/ \E h \in 0 .. MaxHeads - 1 : HeadStep(h)
    \/ \E h \in 0 .. MaxHeads - 1 : ConcatStep(h)
    \/ OutputStep

SpecHeads == HeadsInit /\ [][HeadsNext]_vars

\* The same pass with the heads in order 0..n_heads, and its concatenated
\* buffer.
InOrder == multi_head_attention(hd.input, hd.weights, hd.config, overflow_checks)
InOrderConcat ==
    Then(Collect([h \in 1 .. hd.config.n_heads |->
             HeadOutput(hd.q_full, hd.k_full, hd.v_full, h - 1, hd.config,
                        overflow_checks)]), LAMBDA head_outputs :
    Stored(ConcatStores(head_outputs, hd.config, Len(hd.concat), overflow_checks),
           Len(hd.concat)))

\* C17: whatever the order in which the heads run and are stored, the pass
\* ends with the concatenated buffer and the output of the pass that takes
\* the heads in order 0..n_heads, and it panics only when that pass panics.
C17_HeadOrderDoesNotMatter ==
    /\ hd.pc = "returned"
       => /\ IsOk(InOrder) /\ hd.output.val = InOrder.val
          /\ InOrderConcat = Ok(hd.concat)
    /\ hd.pc = "panicked" => ~IsOk(InOrder)

\* C17 witness: a pass of two heads or more, with head outputs that differ,
\* has returned after running and storing its heads in descending order.
C17_Witness ==
    /\ hd.pc = "returned"
    /\ hd.config.n_heads >= 2
    /\ hd.ran = <<1, 0>> /\ hd.stored = <<1, 0>>
    /\ hd.head_outputs[1] # hd.head_outputs[2]
    /\ hd.config.seq_len >= 2

\* C20: head h is given columns [h*d_head, (h+1)*d_head) of every row of Q,
\* K and V; its cell (i, j) is stored at i*d_model + h*d_head + j of the
\* concatenated buffer; once every head is stored every cell of the buffer
\* was written exactly once; and a matrix split into heads and
\* concatenated unchanged is the matrix.
C20_SplitAndConcatAreInverse ==
    hd.pc \in {"heads", "returned"}
    => LET c == hd.config
       IN  /\ \A h \in Members(hd.ran) :
                  /\ Len(hd.slices[h + 1].q) = c.seq_len * c.d_head
                  /\ \A i \in 0 .. c.seq_len - 1, j \in 0 .. c.d_head - 1 :
                         LET from == i * c.d_model + h * c.d_head + j + 1
                             to == i * c.d_head + j + 1
                         IN  /\ hd.slices[h + 1].q[to] = hd.q_full[from]
                             /\ hd.slices[h + 1].k[to] = hd.k_full[from]
                             /\ hd.slices[h + 1].v[to] = hd.v_full[from]
           /\ \A h \in Members(hd.stored) :
                  \A i \in 0 .. c.seq_len - 1, j \in 0 .. c.d_head - 1 :
                      hd.concat[i * c.d_model + h * c.d_head + j + 1]
                          = hd.head_outputs[h + 1].val[i * c.d_head + j + 1]
           /\ Len(hd.stored) = c.n_heads
              => \A p \in 1 .. c.seq_len * c.d_model : hd.writes[p] = 1
           /\ Then(Collect([h \in 1 .. c.n_heads |->
                       HeadSlice(hd.q_full, h - 1, c, overflow_checks)]),
                   LAMBDA heads :
                   Stored(ConcatStores(heads, c, Len(hd.q_full), overflow_checks),
                          Len(hd.q_full)))
                  = Ok(hd.q_full)

\* C20 witness: a pass of two heads or more over two rows or more, whose Q
\* has columns that differ, has stored every head.
C20_Witness ==
    /\ hd.pc = "returned"
    /\ hd.config.n_heads >= 2 /\ hd.config.seq_len >= 2
    /\ hd.q_full[1] # hd.q_full[2]
    /\ \A p \in 1 .. Len(hd.writes) : hd.writes[p] = 1

\* ----------------------------------------------- specification: SpecShape
\* One call of run_transformer or of self_attention_simple on vectors of the
\* lengths the configuration asks for, the products taken exactly or as a
\* usize holds them.
ShapeCalls ==
    {RTCall(d, h, s, c, base, "none", 1, wseed, iseed, 0) :
        d \in RTDModels, h \in 1 .. MaxHeads, s \in RTSeqLens, c \in BOOLEAN,
        base \in {"product", "wrapped"},
        wseed \in {"identity", "ramp"}, iseed \in {"ramp", "min"}}

ShapeInit ==
    /\ overflow_checks \in BOOLEAN
    /\ rt \in ShapeCalls
    /\ isq = IsqrtIdle /\ qz = QuantIdle /\ ac = ConfigIdle
    /\ LayerIdle

\* What a call of self_attention_simple ends in: the vector it returns, or
\* the panic that unwinds it.
Output(r) ==
    IF IsOk(r) THEN [kind |-> "output", output |-> r.val]
    ELSE Failure("self_attention_simple", r.panic, r.val)

SelfAttentionStep ==
    /\ rt.pc = "call"
    /\ rt' = [rt EXCEPT
                 !.pc = "simple_returned",
                 !.outcome = Output(self_attention_simple(rt.input.embeddings,
                                 rt.config.seq_len, rt.config.d_model,
                                 rt.config.causal, overflow_checks))]
    /\ UNCHANGED <<overflow_checks, isq, qz, ac, layerVars>>

ShapeNext == RunTransformerStep \/ SelfAttentionStep

SpecShape == ShapeInit /\ [][ShapeNext]_vars

\* C18: the output of an accepted call of run_transformer, and the vector
\* self_attention_simple returns, have exactly seq_len * d_model elements,
\* with and without the causal mask.
C18_OutputHasSeqLenTimesDModelElements ==
    /\ (rt.pc = "returned" /\ IsAttestation(rt.outcome))
       => Len(rt.outcome.output) = rt.config.seq_len * rt.config.d_model
    /\ (rt.pc = "simple_returned" /\ rt.outcome.kind = "output")
       => Len(rt.outcome.output) = rt.config.seq_len * rt.config.d_model

\* C18 witness: run_transformer has returned an attestation for a causal
\* configuration of two heads over two rows, its output not all zero.
C18_Witness ==
    /\ rt.pc = "returned" /\ IsAttestation(rt.outcome)
    /\ rt.config.causal /\ rt.config.n_heads = 2 /\ rt.config.seq_len = 2
    /\ Len(rt.outcome.output) = 4
    /\ \E p \in 1 .. 4 : rt.outcome.output[p] # 0

\* Line 31 of softmax: `shifted = x - max_val` for every element, in i32.
Shifted(inputs, checks) ==
    [k \in 1 .. Len(inputs) |-> ArithS(inputs[k] - MaxOf(inputs), I32Mod, checks)]

\* C21: for a non-empty vector, softmax computes x - max_val exactly: the
\* difference is never wrapped or trapped, it is at most 0, and the outputs
\* are the normalised table entries of the exact differences, so that an
\* element below the maximum never gets the table entry of 0 by overflow.
C21_ShiftedIsExactDifference ==
    (sm.pc = "returned" /\ sm.fn = "softmax" /\ Len(sm.scores) > 0)
    => LET exact == [k \in 1 .. Len(sm.scores) |-> sm.scores[k] - MaxOf(sm.scores)]
           exps == [k \in 1 .. Len(sm.scores) |-> exp_lookup(exact[k])]
       IN  /\ \A k \in 1 .. Len(sm.scores) :
                  LET shifted == Shifted(sm.scores, overflow_checks)[k]
                  IN  IsOk(shifted) /\ shifted.val = exact[k] /\ shifted.val <= 0
           /\ IsOk(sm.result)
           /\ \A k \in 1 .. Len(sm.scores) :
                  sm.result.val[k] = (exps[k] * SCALE) \div SumSeq(exps, 1)

\* ------------------------------- quantization.rs: the integer products
\* The width of an 8-bit operand at the scale of the model's words, a third
\* of the word so that the accumulator overflows at a k of 32 (2^17 at full
\* width), and the operands of that width.
MatI8Bits == I32Bits \div 3
MatI8Min == -(2 ^ (MatI8Bits - 1))
MatI8Max == 2 ^ (MatI8Bits - 1) - 1

MatAPanic == "Matrix A dimension mismatch"
MatBPanic == "Matrix B dimension mismatch"
VecPanic == "Vector length mismatch"

\* `acc += term` over the terms in order, acc an i32 starting at 0 (lines
\* 139-142 and 156-159).
RECURSIVE AccumulateI32(_, _, _, _)
AccumulateI32(terms, k, acc, checks) ==
    IF k > Len(terms) THEN Ok(acc)
    ELSE IF ~IsOk(terms[k]) THEN terms[k]
    ELSE LET sum == ArithS(acc + terms[k].val, I32Mod, checks)
         IN  IF ~IsOk(sum) THEN sum ELSE AccumulateI32(terms, k + 1, sum.val, checks)

\* `((scale_a as u64) * (scale_b as u64)) >> 24`, lines 135 and 162.
ScaleCombined(scale_a, scale_b) == Shr(scale_a * scale_b, SCALE_BITS)

\* `(acc as i64 * scale_combined as i64 >> 24) as i32`, lines 144 and 163:
\* the product in i64, the shift of the product, the cast truncating.
Rescale(acc, scale_combined, checks) ==
    Then(ArithS(acc * WrapS(scale_combined, I64Mod), I64Mod, checks), LAMBDA product :
    Ok(WrapS(Shr(product, SCALE_BITS), I32Mod)))

\* One cell of quantized_matmul, lines 138-145.
MatmulCell(a, b, i, j, k, n, scale_combined, result_len, checks) ==
    LET terms == [l \in 1 .. k |->
                     Product(Elem(a, Usize(i * k + (l - 1), checks)),
                             Elem(b, Usize((l - 1) * n + j, checks)))]
        cell == Then(AccumulateI32(terms, 1, 0, checks), LAMBDA acc :
                Rescale(acc, scale_combined, checks))
    IN  Store(cell, Usize(i * n + j, checks), result_len)

\* fn quantized_matmul(a, b, m, k, n, scale_a, scale_b) -> Vec<i32>, lines
\* 119-149.
quantized_matmul(a, b, m, k, n, scale_a, scale_b, checks) ==
    Then(Usize(m * k, checks), LAMBDA a_len :
    IF Len(a) # a_len THEN Panic(MatAPanic, 0)
    ELSE
    Then(Usize(k * n, checks), LAMBDA b_len :
    IF Len(b) # b_len THEN Panic(MatBPanic, 0)
    ELSE
    Then(Usize(m * n, checks), LAMBDA result_len :
    Collect([c \in 1 .. m * n |->
        MatmulCell(a, b, (c - 1) \div n, (c - 1) % n, k, n,
                   ScaleCombined(scale_a, scale_b), result_len, checks)]))))

\* fn quantized_dot(a, b, scale_a, scale_b) -> i32, lines 152-164.
quantized_dot(a, b, scale_a, scale_b, checks) ==
    IF Len(a) # Len(b) THEN Panic(VecPanic, 0)
    ELSE Then(AccumulateI32([l \in 1 .. Len(a) |-> Ok(a[l] * b[l])], 1, 0, checks),
              LAMBDA acc : Rescale(acc, ScaleCombined(scale_a, scale_b), checks))

\* fn dequantize_slice(values, params) -> Vec<i32>, lines 91-93.
dequantize_slice(values, params, checks) ==
    Collect([c \in 1 .. Len(values) |-> dequantize(values[c], params, checks)])

\* ------------------------------------------------ specification: SpecMatmul
\* One call of quantized_matmul, followed by the product linear computes of
\* the dequantized matrices, or one call of quantized_dot (its result kept
\* as a matrix of one cell).
\* The smallest k at which a sum of k products of 8-bit operands can leave
\* the i32 accumulator (2^17 at full width), and the supported size (4096
\* at full width).
MatmulOverflowK == 2 ^ (I32Bits - 1 - 2 * (MatI8Bits - 1))
SupportedK == MatmulOverflowK \div 32

\* Element c (0-based) of an operand: "max" and "min" the ends of the
\* 8-bit range, "two" the constant 2, "ramp" a ramp over the range.
MatFill(seed, c) ==
    CASE seed = "max" -> MatI8Max
      [] seed = "min" -> MatI8Min
      [] seed = "two" -> 2
      [] OTHER -> ((c * 3 + 1) % (2 ^ MatI8Bits)) + MatI8Min
MatVec(len, seed) == [c \in 1 .. len |-> MatFill(seed, c - 1)]
MatSeeds == {"max", "min", "two", "ramp"}
MatScales == {1, SCALE \div 4, SCALE \div 2}

MatmulCall(fn, m, k, n, aseed, bseed, scale_a, scale_b) ==
    [pc |-> "call", fn |-> fn, m |-> m, k |-> k, n |-> n,
     a |-> MatVec(m * k, aseed), b |-> MatVec(k * n, bseed),
     scale_a |-> scale_a, scale_b |-> scale_b,
     result |-> Panic("pending", 0), reference |-> Panic("pending", 0)]

MatmulCalls ==
    {MatmulCall("quantized_matmul", m, k, n, aseed, bseed, scale_a, scale_b) :
        m \in 1 .. 2, k \in 0 .. SupportedK, n \in 1 .. 2,
        aseed \in MatSeeds, bseed \in MatSeeds,
        scale_a \in MatScales, scale_b \in MatScales}
DotCalls ==
    {MatmulCall("quantized_dot", 1, k, 1, aseed, bseed, SCALE \div 2, SCALE \div 2) :
        k \in 0 .. MatmulOverflowK + 1, aseed \in MatSeeds, bseed \in MatSeeds}

MatmulInit ==
    /\ overflow_checks \in BOOLEAN
    /\ qz \in MatmulCalls \cup DotCalls
    /\ isq = IsqrtIdle /\ ac = ConfigIdle /\ rt = RunIdle
    /\ LayerIdle

MatmulStep ==
    /\ qz.pc = "call" /\ qz.fn = "quantized_matmul"
    /\ qz' = [qz EXCEPT
                 !.pc = "returned",
                 !.result = quantized_matmul(qz.a, qz.b, qz.m, qz.k, qz.n,
                                             qz.scale_a, qz.scale_b, overflow_checks)]
    /\ UNCHANGED <<overflow_checks, isq, transformerVars, layerVars>>

DotStep ==
    /\ qz.pc = "call" /\ qz.fn = "quantized_dot"
    /\ qz' = [qz EXCEPT
                 !.pc = "returned",
                 !.result = Then(quantized_dot(qz.a, qz.b, qz.scale_a, qz.scale_b,
                                               overflow_checks),
                                 LAMBDA dot : Ok(<<dot>>))]
    /\ UNCHANGED <<overflow_checks, isq, transformerVars, layerVars>>

\* linear(dequantize_slice(a, scale_a), dequantize_slice(b, scale_b)) on the
\* operands of the quantized_matmul that has returned.
DequantizedLinearStep ==
    /\ qz.pc = "returned" /\ qz.fn = "quantized_matmul"
    /\ qz' = [qz EXCEPT
                 !.pc = "compared",
                 !.reference =
                     Then(dequantize_slice(qz.a, with_scale(qz.scale_a), overflow_checks),
                          LAMBDA x :
                     Then(dequantize_slice(qz.b, with_scale(qz.scale_b), overflow_checks),
                          LAMBDA w :
                     linear(x, w, qz.m, qz.k, qz.n, overflow_checks)))]
    /\ UNCHANGED <<overflow_checks, isq, transformerVars, layerVars>>

MatmulNext == MatmulStep \/ DotStep \/ DequantizedLinearStep

SpecMatmul == MatmulInit /\ [][MatmulNext]_vars

\* The exact sum over l of a[i][l] * b[l][j] of the call.
ExactAcc(i, j) ==
    DotSum([x |-> qz.a, w |-> qz.b, d_in |-> qz.k, d_out |-> qz.n], i, j, 0)
MatCells == (0 .. qz.m - 1) \X (0 .. qz.n - 1)

\* C22: the i32 accumulator of quantized_matmul and quantized_dot holds the
\* exact sum of the products for every 8-bit operands when k is at most the
\* supported size, and when the exact sum of a cell does not fit in an i32
\* the call fails instead of returning a value.
C22_AccumulatorExactOrFailsLoudly ==
    qz.pc = "returned"
    => /\ qz.k <= SupportedK
          => /\ \A c \in MatCells : InS(ExactAcc(c[1], c[2]), I32Mod)
             /\ qz.result.panic # OverflowPanic
       /\ (\E c \in MatCells : ~InS(ExactAcc(c[1], c[2]), I32Mod))
          => ~IsOk(qz.result)

\* The dequantized operands and the cells of their exact product fit in an
\* i32, so that no cast of the reference truncates.
Representable ==
    /\ \A c \in 1 .. Len(qz.a) : InS(qz.a[c] * qz.scale_a, I32Mod)
    /\ \A c \in 1 .. Len(qz.b) : InS(qz.b[c] * qz.scale_b, I32Mod)
    /\ \A c \in MatCells :
           InS(Shr(ExactAcc(c[1], c[2]) * qz.scale_a * qz.scale_b, SCALE_BITS), I32Mod)

\* C23: for symmetric params the cells of quantized_matmul equal, up to the
\* rounding of the combined scale, the cells of linear on the dequantized
\* matrices, whenever both return.
C23_MatmulAgreesWithLinearOfDequantized ==
    (qz.pc = "compared" /\ IsOk(qz.result) /\ IsOk(qz.reference) /\ Representable)
    => \A c \in MatCells :
           LET p == c[1] * qz.n + c[2] + 1
           IN  Abs(qz.result.val[p] - qz.reference.val[p])
                   <= 1 + Abs(ExactAcc(c[1], c[2]))

\* ------------------------------------ quantization.rs: the constructors
\* `i32::abs`: the negation of MIN overflows, it traps or gives MIN back.
AbsI32(v, checks) == ArithS(Abs(v), I32Mod, checks)

\* QuantParams::from_range(min_val, max_val), lines 25-41.
from_range(min_val, max_val, checks) ==
    Then(AbsI32(min_val, checks), LAMBDA abs_min :
    Then(AbsI32(max_val, checks), LAMBDA abs_of_max :
    LET abs_max == WrapU(Max2(abs_min, abs_of_max), I64Mod)
        scale == IF abs_max > 0 THEN WrapU(Max2(abs_max \div I8Max, 1), I32Mod) ELSE 1
    IN  Ok(QuantParams(scale, 0))))

\* The smallest element of a non-empty sequence.
MinOf(values) ==
    CHOOSE m \in {values[k] : k \in 1 .. Len(values)} :
        \A k \in 1 .. Len(values) : m <= values[k]

\* fn compute_params(values: &[i32]) -> QuantParams, lines 96-105.
compute_params(values, checks) ==
    IF Len(values) = 0 THEN Ok(with_scale(1))
    ELSE from_range(MinOf(values), MaxOf(values), checks)

\* ------------------------------------------------ specification: SpecParams
\* One QuantParams built by a public constructor, then handed to quantize.
ParamsCall(fn, min_val, max_val, values, scale) ==
    [pc |-> "call", fn |-> fn, min_val |-> min_val, max_val |-> max_val,
     values |-> values, scale |-> scale,
     params |-> Panic("pending", 0), q |-> Panic("pending", 0)]

\* Range ends and tensor elements: the ends of the i32 range, zero and the
\* values around multiples of 127.
RangeValues ==
    {I32Min, I32Min + 1, -128, -127, -126, -1, 0, 1, 126, 127, 128, 254, I32Max}
TensorValues == {I32Min, -127, 0, 1, I32Max}
ScaleValues == {0, 1, 2, SCALE, I32Max, I32Max + 1, U32Max}

ParamsCalls ==
    {ParamsCall("from_range", lo, hi, <<>>, 0) : lo \in RangeValues, hi \in RangeValues}
      \cup {ParamsCall("compute_params", 0, 0, v, 0) :
                v \in UNION {SeqsOf(TensorValues, n) : n \in 0 .. MaxLen}}
      \cup {ParamsCall(fn, 0, 0, <<>>, s) :
                fn \in {"with_scale", "to_attention_weights"}, s \in ScaleValues}

ParamsInit ==
    /\ overflow_checks \in BOOLEAN
    /\ ac \in ParamsCalls
    /\ isq = IsqrtIdle /\ qz = QuantIdle /\ rt = RunIdle
    /\ LayerIdle

FromRangeStep ==
    /\ ac.pc = "call" /\ ac.fn = "from_range"
    /\ ac' = [ac EXCEPT !.pc = "built",
                        !.params = from_range(ac.min_val, ac.max_val, overflow_checks)]
    /\ UNCHANGED <<overflow_checks, isq, qz, rt, layerVars>>

ComputeParamsStep ==
    /\ ac.pc = "call" /\ ac.fn = "compute_params"
    /\ ac' = [ac EXCEPT !.pc = "built",
                        !.params = compute_params(ac.values, overflow_checks)]
    /\ UNCHANGED <<overflow_checks, isq, qz, rt, layerVars>>

WithScaleStep ==
    /\ ac.pc = "call" /\ ac.fn = "with_scale"
    /\ ac' = [ac EXCEPT !.pc = "built", !.params = Ok(with_scale(ac.scale))]
    /\ UNCHANGED <<overflow_checks, isq, qz, rt, layerVars>>

\* TransformerWeights::to_attention_weights on weights of the given scale.
ToAttentionWeightsStep ==
    /\ ac.pc = "call" /\ ac.fn = "to_attention_weights"
    /\ ac' = [ac EXCEPT
                 !.pc = "built",
                 !.params = Ok(to_attention_weights(
                                   [w_q |-> <<>>, w_k |-> <<>>, w_v |-> <<>>,
                                    w_o |-> <<>>, scale |-> ac.scale,
                                    salt |-> 0]).weight_scale)]
    /\ UNCHANGED <<overflow_checks, isq, qz, rt, layerVars>>

\* quantize(value, &params) with the params that were built.
QuantizeWithStep(value) ==
    /\ ac.pc = "built" /\ IsOk(ac.params)
    /\ ac' = [ac EXCEPT !.pc = "quantized",
                        !.q = quantize(value, ac.params.val, overflow_checks)]
    /\ UNCHANGED <<overflow_checks, isq, qz, rt, layerVars>>

ParamsNext ==
    \/ FromRangeStep
    \/ ComputeParamsStep
    \/ WithScaleStep
    \/ ToAttentionWeightsStep
    \/ \E value \in TensorValues : QuantizeWithStep(value)

SpecParams == ParamsInit /\ [][ParamsNext]_vars

\* The symmetric params of a range: scale = max(1, max(|min|, |max|) div 127).
SymmetricParams(min_val, max_val) ==
    QuantParams(Max2(1, Max2(Abs(min_val), Abs(max_val)) \div I8Max), 0)

\* C24: for every pair of i32 (min, max), min = -2^31 included, from_range
\* returns zero_point = 0 and scale = max(1, max(|min|, |max|) div 127);
\* compute_params of any tensor returns params of this form, scale >= 1.
C24_FromRangeIsSymmetricScale ==
    /\ (ac.pc = "built" /\ ac.fn = "from_range")
       => /\ IsOk(ac.params)
          /\ ac.params.val = SymmetricParams(ac.min_val, ac.max_val)
    /\ (ac.pc = "built" /\ ac.fn = "compute_params")
       => /\ IsOk(ac.params)
          /\ ac.params.val.zero_point = 0 /\ ac.params.val.scale >= 1
          /\ Len(ac.values) > 0
             => ac.params.val = SymmetricParams(MinOf(ac.values), MaxOf(ac.values))

\* C25: every QuantParams a public constructor returns has scale > 0, and
\* quantize with it does not divide by zero.
C25_ConstructedScaleIsPositive ==
    /\ (ac.pc \in {"built", "quantized"} /\ IsOk(ac.params))
       => ac.params.val.scale > 0
    /\ ac.pc = "quantized" => ac.q.panic # DivZeroPanic

\* C26: with the causal mask the first token attends only to itself: row 0
\* of self_attention_simple(input, seq_len, d_model, true) is row 0 of the
\* input, for every input.
C26_CausalFirstRowIsInputRow ==
    (ni.pc = "returned" /\ ni.fn = "self_attention_simple" /\ ni.config.causal)
    => /\ IsOk(ni.out_a)
       /\ Row(ni.out_a.val, 0, ni.config.d_model) = Row(ni.a, 0, ni.config.d_model)
       /\ IsOk(ni.out_b)
       /\ Row(ni.out_b.val, 0, ni.config.d_model) = Row(ni.b, 0, ni.config.d_model)

\* ------------------------------------ specification: isqrt, run to its end
\* The calls of SpecIsqrt, each step taken as long as one is possible: the
\* code runs on until it returns or panics.
SpecIsqrtRuns == IsqrtInit /\ [][IsqrtNext]_vars /\ WF_vars(IsqrtNext)

\* The call has ended: it returned x, or a panic unwound it.
IsqrtEnded == isq.pc \in {"done", "panic"}

\* C27: on every iteration of the loop of isqrt the candidate x strictly
\* decreases, and every call ends after finitely many steps, for every u32 n.
C27_IsqrtTerminates ==
    /\ [][(isq.pc = "loop" /\ isq'.pc # "done") => isq'.x < isq.x]_vars
    /\ <>IsqrtEnded

\* C27 witness: the loop has run an iteration and is due another one.
C27_Witness == isq.pc = "loop" /\ isq.y < isq.x /\ isq.x < isq.n /\ isq.n > SCALE

\* C28: no value of a projection is silently truncated or wrapped: for
\* every i32 input and weights of valid shape the i64 accumulator of every
\* cell of linear holds the exact sum of the products, the value narrowed
\* by `as i32` already fits in an i32, and the call returns that value.
C28_NoSilentTruncation ==
    (ln.pc = "returned" /\ WellShaped(ln))
    => /\ \A i \in 0 .. ln.seq_len - 1 : \A j \in 0 .. ln.d_out - 1 :
              /\ InS(DotSum(ln, i, j, 0), I64Mod)
              /\ InS(Shr(DotSum(ln, i, j, 0), SCALE_BITS), I32Mod)
       /\ IsOk(ln.result)

\* ------------------------------------------- bin/transformer_circuit.rs
\* The bytes main reads are the bincode encoding (config::standard(): little
\* endian, variable-length integers) of the three values, lines 31-38.  An
\* unsigned integer below 251 is one byte; a larger one is a marker byte
\* (251, 252) followed by its 2 or 4 little-endian bytes; a signed integer
\* is encoded as its zigzag value; a Vec as its length and its elements.
Zigzag(v) == IF v >= 0 THEN 2 * v ELSE -2 * v - 1
Varint(u) ==
    IF u < 251 THEN <<u>>
    ELSE IF u < 65536 THEN <<251>> \o ToLeBytes(u, 2)
    ELSE <<252>> \o ToLeBytes(u, 4)
RECURSIVE BincodeElems(_, _)
BincodeElems(v, k) ==
    IF k > Len(v) THEN <<>> ELSE Varint(Zigzag(v[k])) \o BincodeElems(v, k + 1)
BincodeVec(v) == Varint(Len(v)) \o BincodeElems(v, 1)
BincodeWeights(weights) ==
    BincodeVec(weights.w_q) \o BincodeVec(weights.w_k) \o BincodeVec(weights.w_v)
        \o BincodeVec(weights.w_o) \o Varint(weights.scale) \o Varint(weights.salt)
BincodeInput(input) == BincodeVec(input.embeddings)

\* The public values main commits, lines 80-88.
Committed(model_hash, input_hash, output_hash, output) ==
    [kind |-> "committed", model_hash |-> model_hash, input_hash |-> input_hash,
     output_hash |-> output_hash,
     prediction |-> IF Len(output) = 0 THEN <<>> ELSE <<output[1]>>]

\* pub fn main(), lines 24-90, on the encodings of (config, weights, input).
transformer_circuit_main(config, weights, input, checks) ==
    Unwind(StagePanic("config", AttentionConfig_new(config.d_model, config.n_heads,
                                                    config.seq_len, config.causal)),
           LAMBDA attn_config :
    Unwind(multi_head_attention(input.embeddings,
               [w_q |-> weights.w_q, w_k |-> weights.w_k, w_v |-> weights.w_v,
                w_o |-> weights.w_o, weight_scale |-> with_scale(weights.scale)],
               attn_config, checks), LAMBDA output :
    Committed(Sha256(BincodeWeights(weights)), Sha256(BincodeInput(input)),
              Sha256(CastSlice(output, 1)), output)))

\* ----------------------------------------------- specification: SpecCircuit
\* The library's run_transformer and the circuit's main on the same
\* (config, weights, input), in either order.
CircuitCalls ==
    {RTCall(d, h, s, c, "product", which, delta, wseed, "ramp", 0) :
        d \in 1 .. MaxDModel, h \in 1 .. MaxHeads, s \in 1 .. MaxSeqLen,
        c \in BOOLEAN, which \in {"none", "w_q", "embeddings"}, delta \in {-1, 1},
        wseed \in {"identity", "ramp"}}

CircuitInit ==
    /\ overflow_checks \in BOOLEAN
    /\ hp \in {[pc |-> "call", config |-> call.config, weights |-> call.weights,
                input |-> call.input,
                library |-> Failure("pending", NoPanic, 0),
                circuit |-> Failure("pending", NoPanic, 0)] : call \in CircuitCalls}
    /\ EngineIdle
    /\ sm = SoftmaxIdle /\ ln = LinearIdle /\ ni = PairIdle /\ hd = HeadsIdle

Ran(outcome) == ~(outcome.kind = "panic" /\ outcome.stage = "pending")

LibraryStep ==
    /\ hp.pc = "call" /\ ~Ran(hp.library)
    /\ hp' = [hp EXCEPT !.library = run_transformer(hp.config, hp.weights, hp.input,
                                                    overflow_checks)]
    /\ UNCHANGED <<overflow_checks, isq, qz, transformerVars, sm, ln, ni, hd>>

CircuitStep ==
    /\ hp.pc = "call" /\ ~Ran(hp.circuit)
    /\ hp' = [hp EXCEPT !.circuit = transformer_circuit_main(hp.config, hp.weights,
                                        hp.input, overflow_checks)]
    /\ UNCHANGED <<overflow_checks, isq, qz, transformerVars, sm, ln, ni, hd>>

CircuitNext == LibraryStep \/ CircuitStep

SpecCircuit == CircuitInit /\ [][CircuitNext]_vars

\* C29: on the same (config, weights, input) the circuit's main commits the
\* model_hash, input_hash and output_hash that run_transformer returns, and
\* it rejects exactly the inputs run_transformer rejects.
C29_CircuitAgreesWithLibrary ==
    (Ran(hp.library) /\ Ran(hp.circuit))
    => /\ hp.circuit.kind = "committed" <=> IsAttestation(hp.library)
       /\ (hp.circuit.kind = "committed" /\ IsAttestation(hp.library))
          => /\ hp.circuit.model_hash = hp.library.model_hash
             /\ hp.circuit.input_hash = hp.library.input_hash
             /\ hp.circuit.output_hash = hp.library.output_hash

\* The largest |V[j][l]| over the rows j of column l of a head's V.
MaxAbsOfColumn(v, l, seq_len, d_head) ==
    CHOOSE m \in {Abs(v[j * d_head + l + 1]) : j \in 0 .. seq_len - 1} :
        \A j \in 0 .. seq_len - 1 : Abs(v[j * d_head + l + 1]) <= m

\* C30: for every head, row i and column l, the weighted-sum cell of the
\* head's output is at most the largest |V[j][l]| of its column in
\* absolute value.
C30_OutputWithinRangeOfValues ==
    hd.pc \in {"heads", "returned"}
    => \A h \in Members(hd.ran) :
           \A i \in 0 .. hd.config.seq_len - 1, l \in 0 .. hd.config.d_head - 1 :
               Abs(hd.head_outputs[h + 1].val[i * hd.config.d_head + l + 1])
                   <= MaxAbsOfColumn(hd.slices[h + 1].v, l, hd.config.seq_len,
                                     hd.config.d_head)

\* C30 witness: a head over two rows or more has run on a V whose column 0
\* holds different values, one of them negative, and its output is not zero.
C30_Witness ==
    /\ hd.pc \in {"heads", "returned"}
    /\ hd.config.seq_len >= 2
    /\ \E h \in Members(hd.ran) :
           LET v == hd.slices[h + 1].v
               d == hd.config.d_head
           IN  /\ v[1] # v[d + 1] /\ (v[1] < 0 \/ v[d + 1] < 0)
               /\ hd.head_outputs[h + 1].val[d + 1] # 0
               /\ hd.head_outputs[h + 1].val[d + 1] # v[d + 1]

=============================================================================
